---- MODULE Spec2Model ----
(***************************************************************************)
(* Model of the DemoBlaze checkout test orchestration:                     *)
(*   - the module-level browser / context / page singleton chain of        *)
(*     helpers/browser-setup (initializeBrowser, cleanupBrowser) and the   *)
(*     Cucumber Before / After hooks that drive it;                        *)
(*   - the dialog waits of login, addProductToCart,                        *)
(*     verifyAddToCartSuccess and handleDialog;                            *)
(*   - the API test: the route handler, the response wait and the          *)
(*     validation of the product list;                                     *)
(*   - the action wrappers and the scenario's steps with their budgets.    *)
(* Handles are positive integers, Null (0) is the absent handle.           *)
(***************************************************************************)
EXTENDS Integers, Sequences, FiniteSets, TLC

VARIABLES browser, context, page, nextId, closeAttempted, last, prev,
          stepPage, runPhase, scenarioResult, reported, usedByEarlierRuns,
          flow, pc, triggered, wait, dlg, held, expected, trace, result,
          responseData, minProducts, validation,
          apiPc, routeInstalled, nav, arrivals, registeredAt, respWait, apiResult,
          routes,
          BROWSER, engine,
          act, target, clock, actPhase, invocations, actResult, retries, located,
          scPc, executed, visited, failedAt, surfaced, cart, title, elapsed,
          feature, handed

sessionVars == <<browser, context, page, nextId, closeAttempted, last, prev, engine>>
hookVars == <<stepPage, runPhase, scenarioResult, reported, usedByEarlierRuns>>
dialogVars == <<flow, pc, triggered, wait, dlg, held, expected, trace, result>>
validateVars == <<responseData, minProducts, validation>>
apiVars == <<apiPc, routeInstalled, nav, arrivals, registeredAt, respWait, apiResult,
            routes>>
configVars == <<BROWSER>>
actionVars == <<act, target, clock, actPhase, invocations, actResult, retries, located>>
scenarioVars ==
  <<scPc, executed, visited, failedAt, surfaced, cart, title, elapsed, feature, handed>>
restVars == <<validateVars, apiVars, configVars, actionVars, scenarioVars>>
vars == <<sessionVars, hookVars, dialogVars, restVars>>

\* Largest handle identity the engine hands out in a run of the model.
MaxHandles == 6

Null == 0

\* let browser / context / page = null, as one value.
Session(b, c, p) == [browser |-> b, context |-> c, page |-> p]

NoSession == Session(Null, Null, Null)

\* The record of one call of an exported operation: the handles it found, the
\* engine operations it attempted in order (the failing one included), how it
\* ended and, for initializeBrowser, the page it returned.
Call(op, pre, ops, outcome, ret) ==
  [op |-> op, pre |-> pre, ops |-> ops, outcome |-> outcome, ret |-> ret]

NoCall == Call("none", NoSession, <<>>, "none", Null)

InitFailures == {"none", "launch", "newContext", "newPage"}
CloseFailures == {"none", "page.close", "context.close", "browser.close"}

(***************************************************************************)
(* The configured channel and the engine it selects.  process.env.BROWSER  *)
(* is unset or a string; getTestConfig falls back to 'chromium' when it is *)
(* unset or empty.                                                         *)
(***************************************************************************)
EnvValue(set, value) == [set |-> set, value |-> value]

EnvUnset == EnvValue(FALSE, "")

EnvValues ==
  {EnvUnset} \cup
  {EnvValue(TRUE, v) :
     v \in {"", "chromium", "firefox", "webkit", "chrome", "msedge", "safari", "Firefox"}}

\* getTestConfig().browser.channel
getTestConfigChannel(env) ==
  IF env.set /\ env.value # "" THEN env.value ELSE "chromium"

\* getBrowserLauncher whose switch has no default branch.
getBrowserLauncher_noDefault(channel) ==
  CASE channel = "firefox" -> "firefox"
    [] channel = "webkit" -> "webkit"
    [] channel = "chromium" -> "chromium"
    [] OTHER -> "undefined"

\* getBrowserLauncher: the switch on TEST_CONFIG.browser.channel.
getBrowserLauncher(channel) ==
  CASE channel = "firefox" -> "firefox"
    [] channel = "webkit" -> "webkit"
    [] channel = "chromium" -> "chromium"
    [] OTHER -> "chromium"

\* initializeBrowser with the `if (!page)` guard lost: a page per call.
initializeBrowser_newPageEachCall(s, n, failAt) ==
  LET needB == s.browser = Null
      thrownB == needB /\ failAt = "launch"
      b1 == IF needB /\ ~thrownB THEN n ELSE s.browser
      n1 == IF needB /\ ~thrownB THEN n + 1 ELSE n
      ops1 == IF needB THEN <<"launch">> ELSE <<>>
      needC == ~thrownB /\ s.context = Null
      thrownC == needC /\ failAt = "newContext"
      c1 == IF needC /\ ~thrownC THEN n1 ELSE s.context
      n2 == IF needC /\ ~thrownC THEN n1 + 1 ELSE n1
      ops2 == IF needC THEN Append(ops1, "newContext") ELSE ops1
      needP == ~thrownB /\ ~thrownC
      thrownP == needP /\ failAt = "newPage"
      p1 == IF needP /\ ~thrownP THEN n2 ELSE s.page
      n3 == IF needP /\ ~thrownP THEN n2 + 1 ELSE n2
      ops3 == IF needP THEN Append(ops2, "newPage") ELSE ops2
      thrown == thrownB \/ thrownC \/ thrownP
  IN [session |-> [browser |-> b1, context |-> c1, page |-> p1],
      nextId |-> n3,
      ops |-> ops3,
      closed |-> {},
      outcome |-> IF thrown THEN "threw" ELSE "returned",
      ret |-> IF thrown THEN Null ELSE p1]

\* initializeBrowser with the `if (!context)` guard lost: a context per call,
\* while the page of the earlier context is kept.
initializeBrowser_newContextEachCall(s, n, failAt) ==
  LET needB == s.browser = Null
      thrownB == needB /\ failAt = "launch"
      b1 == IF needB /\ ~thrownB THEN n ELSE s.browser
      n1 == IF needB /\ ~thrownB THEN n + 1 ELSE n
      ops1 == IF needB THEN <<"launch">> ELSE <<>>
      needC == ~thrownB
      thrownC == needC /\ failAt = "newContext"
      c1 == IF needC /\ ~thrownC THEN n1 ELSE s.context
      n2 == IF needC /\ ~thrownC THEN n1 + 1 ELSE n1
      ops2 == IF needC THEN Append(ops1, "newContext") ELSE ops1
      needP == ~thrownB /\ ~thrownC /\ s.page = Null
      thrownP == needP /\ failAt = "newPage"
      p1 == IF needP /\ ~thrownP THEN n2 ELSE s.page
      n3 == IF needP /\ ~thrownP THEN n2 + 1 ELSE n2
      ops3 == IF needP THEN Append(ops2, "newPage") ELSE ops2
      thrown == thrownB \/ thrownC \/ thrownP
  IN [session |-> [browser |-> b1, context |-> c1, page |-> p1],
      nextId |-> n3,
      ops |-> ops3,
      closed |-> {},
      outcome |-> IF thrown THEN "threw" ELSE "returned",
      ret |-> IF thrown THEN Null ELSE p1]

(***************************************************************************)
(* initializeBrowser: each absent link is created in turn; the first       *)
(* engine operation that throws ends the call (the catch logs and          *)
(* rethrows), keeping what was assigned before it.  failAt names the       *)
(* engine operation that throws if the call reaches it.  The result holds  *)
(* the handles after the call, the next fresh identity, the attempted      *)
(* operations, the outcome and the returned page.                          *)
(***************************************************************************)
initializeBrowser(s, n, failAt) ==
  LET needB == s.browser = Null
      thrownB == needB /\ failAt = "launch"
      b1 == IF needB /\ ~thrownB THEN n ELSE s.browser
      n1 == IF needB /\ ~thrownB THEN n + 1 ELSE n
      ops1 == IF needB THEN <<"launch">> ELSE <<>>
      needC == ~thrownB /\ s.context = Null
      thrownC == needC /\ failAt = "newContext"
      c1 == IF needC /\ ~thrownC THEN n1 ELSE s.context
      n2 == IF needC /\ ~thrownC THEN n1 + 1 ELSE n1
      ops2 == IF needC THEN Append(ops1, "newContext") ELSE ops1
      needP == ~thrownB /\ ~thrownC /\ s.page = Null
      thrownP == needP /\ failAt = "newPage"
      p1 == IF needP /\ ~thrownP THEN n2 ELSE s.page
      n3 == IF needP /\ ~thrownP THEN n2 + 1 ELSE n2
      ops3 == IF needP THEN Append(ops2, "newPage") ELSE ops2
      thrown == thrownB \/ thrownC \/ thrownP
  IN [session |-> Session(b1, c1, p1),
      nextId |-> n3,
      ops |-> ops3,
      closed |-> {},
      outcome |-> IF thrown THEN "threw" ELSE "returned",
      ret |-> IF thrown THEN Null ELSE p1]

\* cleanupBrowser closing the chain parent first: browser, context, page.
cleanupBrowser_browserFirst(s, n, failAt) ==
  LET hasB == s.browser # Null
      thrownB == hasB /\ failAt = "browser.close"
      b1 == IF hasB /\ ~thrownB THEN Null ELSE s.browser
      ops1 == IF hasB THEN <<"browser.close">> ELSE <<>>
      cl1 == IF hasB THEN {s.browser} ELSE {}
      hasC == ~thrownB /\ s.context # Null
      thrownC == hasC /\ failAt = "context.close"
      c1 == IF hasC /\ ~thrownC THEN Null ELSE s.context
      ops2 == IF hasC THEN Append(ops1, "context.close") ELSE ops1
      cl2 == IF hasC THEN cl1 \cup {s.context} ELSE cl1
      hasP == ~thrownB /\ ~thrownC /\ s.page # Null
      thrownP == hasP /\ failAt = "page.close"
      p1 == IF hasP /\ ~thrownP THEN Null ELSE s.page
      ops3 == IF hasP THEN Append(ops2, "page.close") ELSE ops2
      cl3 == IF hasP THEN cl2 \cup {s.page} ELSE cl2
  IN [session |-> [browser |-> b1, context |-> c1, page |-> p1],
      nextId |-> n,
      ops |-> ops3,
      closed |-> cl3,
      outcome |-> "returned",
      ret |-> Null]

\* cleanupBrowser with the `if (page)` guard lost: page.close() is attempted
\* on an absent page too, where it throws into the catch.
cleanupBrowser_unguarded(s, n, failAt) ==
  LET hasP == s.page # Null
      thrownP == ~hasP \/ failAt = "page.close"
      p1 == IF ~thrownP THEN Null ELSE s.page
      ops1 == <<"page.close">>
      cl1 == IF hasP THEN {s.page} ELSE {}
      hasC == ~thrownP /\ s.context # Null
      thrownC == hasC /\ failAt = "context.close"
      c1 == IF hasC /\ ~thrownC THEN Null ELSE s.context
      ops2 == IF hasC THEN Append(ops1, "context.close") ELSE ops1
      cl2 == IF hasC THEN cl1 \cup {s.context} ELSE cl1
      hasB == ~thrownP /\ ~thrownC /\ s.browser # Null
      thrownB == hasB /\ failAt = "browser.close"
      b1 == IF hasB /\ ~thrownB THEN Null ELSE s.browser
      ops3 == IF hasB THEN Append(ops2, "browser.close") ELSE ops2
      cl3 == IF hasB THEN cl2 \cup {s.browser} ELSE cl2
  IN [session |-> [browser |-> b1, context |-> c1, page |-> p1],
      nextId |-> n,
      ops |-> ops3,
      closed |-> cl3,
      outcome |-> "returned",
      ret |-> Null]

\* cleanupBrowser whose catch rethrows the close failure.
cleanupBrowser_rethrow(s, n, failAt) ==
  LET hasP == s.page # Null
      thrownP == hasP /\ failAt = "page.close"
      p1 == IF hasP /\ ~thrownP THEN Null ELSE s.page
      ops1 == IF hasP THEN <<"page.close">> ELSE <<>>
      cl1 == IF hasP THEN {s.page} ELSE {}
      hasC == ~thrownP /\ s.context # Null
      thrownC == hasC /\ failAt = "context.close"
      c1 == IF hasC /\ ~thrownC THEN Null ELSE s.context
      ops2 == IF hasC THEN Append(ops1, "context.close") ELSE ops1
      cl2 == IF hasC THEN cl1 \cup {s.context} ELSE cl1
      hasB == ~thrownP /\ ~thrownC /\ s.browser # Null
      thrownB == hasB /\ failAt = "browser.close"
      b1 == IF hasB /\ ~thrownB THEN Null ELSE s.browser
      ops3 == IF hasB THEN Append(ops2, "browser.close") ELSE ops2
      cl3 == IF hasB THEN cl2 \cup {s.browser} ELSE cl2
  IN [session |-> [browser |-> b1, context |-> c1, page |-> p1],
      nextId |-> n,
      ops |-> ops3,
      closed |-> cl3,
      outcome |-> IF thrownP \/ thrownC \/ thrownB THEN "threw" ELSE "returned",
      ret |-> Null]

(***************************************************************************)
(* cleanupBrowser: one try block around the three guarded closes; a close  *)
(* that throws jumps to the catch, which logs and does not rethrow, so the *)
(* handle whose close threw and every handle after it keep their value.    *)
(***************************************************************************)
cleanupBrowser(s, n, failAt) ==
  LET hasP == s.page # Null
      thrownP == hasP /\ failAt = "page.close"
      p1 == IF hasP /\ ~thrownP THEN Null ELSE s.page
      ops1 == IF hasP THEN <<"page.close">> ELSE <<>>
      cl1 == IF hasP THEN {s.page} ELSE {}
      hasC == ~thrownP /\ s.context # Null
      thrownC == hasC /\ failAt = "context.close"
      c1 == IF hasC /\ ~thrownC THEN Null ELSE s.context
      ops2 == IF hasC THEN Append(ops1, "context.close") ELSE ops1
      cl2 == IF hasC THEN cl1 \cup {s.context} ELSE cl1
      hasB == ~thrownP /\ ~thrownC /\ s.browser # Null
      thrownB == hasB /\ failAt = "browser.close"
      b1 == IF hasB /\ ~thrownB THEN Null ELSE s.browser
      ops3 == IF hasB THEN Append(ops2, "browser.close") ELSE ops2
      cl3 == IF hasB THEN cl2 \cup {s.browser} ELSE cl2
  IN [session |-> Session(b1, c1, p1),
      nextId |-> n,
      ops |-> ops3,
      closed |-> cl3,
      outcome |-> "returned",
      ret |-> Null]

Current == Session(browser, context, page)

\* The module state and the call log after a call that ended as r.
Apply(op, r) ==
  /\ browser' = r.session.browser
  /\ context' = r.session.context
  /\ page' = r.session.page
  /\ nextId' = r.nextId
  /\ closeAttempted' = closeAttempted \cup r.closed
  /\ prev' = last
  /\ last' = Call(op, Current, r.ops, r.outcome, r.ret)
  /\ engine' = IF \E i \in DOMAIN r.ops : r.ops[i] = "launch"
               THEN getBrowserLauncher(getTestConfigChannel(BROWSER))
               ELSE engine

(***************************************************************************)
(* Dialog messages.  A string is a sequence of one-character strings, so   *)
(* that toLowerCase() and includes() are computed and not assumed.         *)
(***************************************************************************)
UpperCase == <<"A", "B", "C", "D", "E", "F", "G", "H", "I", "J", "K", "L", "M", "N", "O", "P", "Q", "R", "S", "T", "U", "V", "W", "X", "Y", "Z">>
LowerCase == <<"a", "b", "c", "d", "e", "f", "g", "h", "i", "j", "k", "l", "m", "n", "o", "p", "q", "r", "s", "t", "u", "v", "w", "x", "y", "z">>

ToLowerChar(c) ==
  IF \E i \in DOMAIN UpperCase : UpperCase[i] = c
  THEN LowerCase[CHOOSE i \in DOMAIN UpperCase : UpperCase[i] = c]
  ELSE c

\* String.prototype.toLowerCase
ToLowerCase(s) == [i \in DOMAIN s |-> ToLowerChar(s[i])]

\* String.prototype.includes
Includes(s, sub) ==
  \E k \in 0..(Len(s) - Len(sub)) :
    \A i \in 1..Len(sub) : s[k + i] = sub[i]

ProductAdded == <<"p", "r", "o", "d", "u", "c", "t", " ", "a", "d", "d", "e", "d">>
Added == <<"a", "d", "d", "e", "d">>
WrongPassword == <<"w", "r", "o", "n", "g", " ", "p", "a", "s", "s", "w", "o", "r", "d">>
UserDoesNotExist == <<"u", "s", "e", "r", " ", "d", "o", "e", "s", " ", "n", "o", "t", " ", "e", "x", "i", "s", "t">>

\* The messages the application may put in a dialog.
DialogMessages ==
  { <<"P", "r", "o", "d", "u", "c", "t", " ", "a", "d", "d", "e", "d">>,
    <<"P", "R", "O", "D", "U", "C", "T", " ", "A", "D", "D", "E", "D", ".">>,
    <<"A", "d", "d", "e", "d">>,
    <<"S", "o", "l", "d", " ", "o", "u", "t">>,
    <<"W", "r", "o", "n", "g", " ", "p", "a", "s", "s", "w", "o", "r", "d", ".">>,
    <<"W", "R", "O", "N", "G", " ", "P", "A", "S", "S", "W", "O", "R", "D">>,
    <<"U", "s", "e", "r", " ", "d", "o", "e", "s", " ", "n", "o", "t", " ", "e", "x", "i", "s", "t", ".">>,
    <<"W", "e", "l", "c", "o", "m", "e">> }

\* null, as returned by handleDialog and by the caught wait of login.
NullValue == <<"null">>

\* handleDialog's optional expectedMessage.
Expectation(supplied, text) == [supplied |-> supplied, text |-> text]

NoExpectation == Expectation(FALSE, <<>>)

Expectations ==
  { NoExpectation,
    Expectation(TRUE, <<>>),
    Expectation(TRUE, <<"P", "r", "o", "d", "u", "c", "t", " ", "a", "d", "d", "e", "d">>),
    Expectation(TRUE, <<"A", "D", "D", "E", "D">>),
    Expectation(TRUE, <<"p", "a", "s", "s", "w", "o", "r", "d">>) }

\* The promise page.waitForEvent('dialog') returns: pending, resolved with a
\* dialog, or rejected by its timeout; "none" before it is armed.
Wait(state, msg) == [state |-> state, msg |-> msg]

NoWait == Wait("none", NullValue)

\* The native dialog of the page: none, open, accepted, or dismissed by the
\* engine because no listener was registered when it fired.
Dialog(state, msg, accepts) == [state |-> state, msg |-> msg, accepts |-> accepts]

NoDialog == Dialog("none", NullValue, 0)

\* How an operation ended.  events are its dialog.accept() calls and its
\* throw, in order; got is the dialog message its await received.
Outcome(outcome, ret, error, events) ==
  [outcome |-> outcome, ret |-> ret, error |-> error, events |-> events]

Result(op, awaited, got, o) ==
  [op |-> op, awaited |-> awaited, got |-> got, outcome |-> o.outcome,
   ret |-> o.ret, error |-> o.error]

NoResult == Result("none", FALSE, NullValue, Outcome("none", NullValue, <<>>, <<>>))

(***************************************************************************)
(* Response bodies.  A decoded body is an array, an object, null or a      *)
(* scalar.  An array is known by the kinds of its elements; an object by   *)
(* the values of its top-level fields in the order Object.values lists     *)
(* them.                                                                   *)
(***************************************************************************)
\* Longest array of object records among the inputs.
MaxItems == 6

\* Longest array of mixed elements among the inputs.
MaxMixed == 2

\* Most top-level fields of an object among the inputs.
MaxFields == 2

\* Largest minProducts among the inputs.
MaxMinProducts == 6

\* TEST_CONFIG.MIN_PRODUCTS
MIN_PRODUCTS == 5

JsonValue(type, items, fields) == [type |-> type, items |-> items, fields |-> fields]

JsonArray(items) == JsonValue("array", items, <<>>)

JsonObject(fields) == JsonValue("object", <<>>, fields)

JsonScalar(type) == JsonValue(type, <<>>, <<>>)

\* What an array element is to `typeof x !== 'object' || x === null`.
ElementKinds == {"object", "array", "null", "string"}

SeqsUpTo(S, n) == UNION {[1..k -> S] : k \in 0..n}

ObjectRecords(n) == [i \in 1..n |-> "object"]

Arrays ==
  {JsonArray(ObjectRecords(n)) : n \in 0..MaxItems}
  \cup {JsonArray(items) : items \in SeqsUpTo(ElementKinds, MaxMixed)}

Scalars == {JsonScalar("null"), JsonScalar("string"), JsonScalar("number")}

FieldValues ==
  {JsonArray(ObjectRecords(n)) : n \in 0..MaxItems}
  \cup {JsonScalar("string"), JsonScalar("null"), JsonObject(<<>>)}

Objects == {JsonObject(fields) : fields \in SeqsUpTo(FieldValues, MaxFields)}

ResponseBodies == Arrays \cup Objects \cup Scalars

\* The outcome of a validation: the sequence it evaluated, if it got that
\* far, and for a failure the wrapper, the cause and the counts it names.
Validation(done, outcome, extracted, products, error) ==
  [done |-> done, outcome |-> outcome, extracted |-> extracted,
   products |-> products, error |-> error]

ValidationError(cause, found, required) ==
  [wrapper |-> "Product list validation failed", cause |-> cause,
   found |-> found, required |-> required]

\* A count the message does not name.
Unnamed == -1

NoError == [wrapper |-> "", cause |-> "", found |-> Unnamed, required |-> Unnamed]

NotValidated == Validation(FALSE, "none", FALSE, <<>>, NoError)

Least(S) == CHOOSE i \in S : \A j \in S : i <= j

Greatest(S) == CHOOSE i \in S : \A j \in S : j <= i

\* validateProductListResponse with toBeGreaterThan in place of
\* toBeGreaterThanOrEqual.
validateProductListResponse_strictlyMore(data, m) ==
  LET isArray == data.type = "array"
      isObject == data.type = "object"
      arrayFields == {i \in DOMAIN data.fields : data.fields[i].type = "array"}
  IN IF ~isArray /\ ~isObject
     THEN Validation(TRUE, "threw", FALSE, <<>>,
                     ValidationError("Response is not an array or object", Unnamed, m))
     ELSE IF ~isArray /\ arrayFields = {}
     THEN Validation(TRUE, "threw", FALSE, <<>>,
                     ValidationError("Response is not an array and no array property found",
                                     Unnamed, m))
     ELSE LET products == IF isArray THEN data.items
                          ELSE data.fields[Least(arrayFields)].items
              productCount == Len(products)
          IN IF ~(productCount > m)
             THEN Validation(TRUE, "threw", TRUE, products,
                             ValidationError("toBeGreaterThanOrEqual", productCount, m))
             ELSE IF productCount > 0 /\ products[1] \notin {"object", "array"}
             THEN Validation(TRUE, "threw", TRUE, products,
                             ValidationError("Products in response are not valid objects",
                                             Unnamed, m))
             ELSE Validation(TRUE, "returned", TRUE, products, NoError)

\* validateProductListResponse looking at every element.
validateProductListResponse_everyElement(data, m) ==
  LET isArray == data.type = "array"
      isObject == data.type = "object"
      arrayFields == {i \in DOMAIN data.fields : data.fields[i].type = "array"}
  IN IF ~isArray /\ ~isObject
     THEN Validation(TRUE, "threw", FALSE, <<>>,
                     ValidationError("Response is not an array or object", Unnamed, m))
     ELSE IF ~isArray /\ arrayFields = {}
     THEN Validation(TRUE, "threw", FALSE, <<>>,
                     ValidationError("Response is not an array and no array property found",
                                     Unnamed, m))
     ELSE LET products == IF isArray THEN data.items
                          ELSE data.fields[Least(arrayFields)].items
              productCount == Len(products)
          IN IF ~(productCount >= m)
             THEN Validation(TRUE, "threw", TRUE, products,
                             ValidationError("toBeGreaterThanOrEqual", productCount, m))
             ELSE IF \E i \in DOMAIN products : products[i] \notin {"object", "array"}
             THEN Validation(TRUE, "threw", TRUE, products,
                             ValidationError("Products in response are not valid objects",
                                             Unnamed, m))
             ELSE Validation(TRUE, "returned", TRUE, products, NoError)

\* validateProductListResponse taking the last array-valued field.
validateProductListResponse_lastArrayProperty(data, m) ==
  LET isArray == data.type = "array"
      isObject == data.type = "object"
      arrayFields == {i \in DOMAIN data.fields : data.fields[i].type = "array"}
  IN IF ~isArray /\ ~isObject
     THEN Validation(TRUE, "threw", FALSE, <<>>,
                     ValidationError("Response is not an array or object", Unnamed, m))
     ELSE IF ~isArray /\ arrayFields = {}
     THEN Validation(TRUE, "threw", FALSE, <<>>,
                     ValidationError("Response is not an array and no array property found",
                                     Unnamed, m))
     ELSE LET products == IF isArray THEN data.items
                          ELSE data.fields[Greatest(arrayFields)].items
              productCount == Len(products)
          IN IF ~(productCount >= m)
             THEN Validation(TRUE, "threw", TRUE, products,
                             ValidationError("toBeGreaterThanOrEqual", productCount, m))
             ELSE IF productCount > 0 /\ products[1] \notin {"object", "array"}
             THEN Validation(TRUE, "threw", TRUE, products,
                             ValidationError("Products in response are not valid objects",
                                             Unnamed, m))
             ELSE Validation(TRUE, "returned", TRUE, products, NoError)

\* validateProductListResponse(responseData, minProducts): the body itself if
\* it is an array, else the first array among Object.values of an object;
\* then the count against minProducts (the failed expectation names the
\* received and the expected count), then the first element.  Every failure
\* is rethrown wrapped, with "Expected at least minProducts".
validateProductListResponse(data, m) ==
  LET isArray == data.type = "array"
      isObject == data.type = "object"
      arrayFields == {i \in DOMAIN data.fields : data.fields[i].type = "array"}
  IN IF ~isArray /\ ~isObject
     THEN Validation(TRUE, "threw", FALSE, <<>>,
                     ValidationError("Response is not an array or object", Unnamed, m))
     ELSE IF ~isArray /\ arrayFields = {}
     THEN Validation(TRUE, "threw", FALSE, <<>>,
                     ValidationError("Response is not an array and no array property found",
                                     Unnamed, m))
     ELSE LET products == IF isArray THEN data.items
                          ELSE data.fields[Least(arrayFields)].items
              productCount == Len(products)
          IN IF ~(productCount >= m)
             THEN Validation(TRUE, "threw", TRUE, products,
                             ValidationError("toBeGreaterThanOrEqual", productCount, m))
             ELSE IF productCount > 0 /\ products[1] \notin {"object", "array"}
             THEN Validation(TRUE, "threw", TRUE, products,
                             ValidationError("Products in response are not valid objects",
                                             Unnamed, m))
             ELSE Validation(TRUE, "returned", TRUE, products, NoError)

(***************************************************************************)
(* The API test: responses, the response wait and interceptApiRequest.     *)
(***************************************************************************)
\* Most responses the page receives in one test.
MaxResponses == 3

\* TIMEOUTS.LONG
LONG == 30000

\* The status the test expects.
ExpectedStatus == 200

\* API_ENDPOINTS.ENTRIES
ENTRIES == <<"/", "e", "n", "t", "r", "i", "e", "s">>

EntriesUrl == <<"a", "p", "i", "/", "e", "n", "t", "r", "i", "e", "s">>

EntryUrl == <<"a", "p", "i", "/", "e", "n", "t", "r", "y">>

PageUrl == <<"s", "h", "o", "p", "/">>

\* The endpoint behind a doubled slash.
DoubledSlashUrl == <<"a", "p", "i", "/", "/", "e", "n", "t", "r", "i", "e", "s">>

\* The value of a variable that was never assigned.
Undefined == JsonScalar("undefined")

ApplicationJson ==
  <<"a", "p", "p", "l", "i", "c", "a", "t", "i", "o", "n", "/", "j", "s", "o", "n">>

JsonUtf8 == ApplicationJson \o <<";", " ", "c", "h", "a", "r", "s", "e", "t", "=", "u", "t", "f", "-", "8">>

TextHtml == <<"t", "e", "x", "t", "/", "h", "t", "m", "l">>

\* What `response.headers()['content-type'] || ''` is without the header.
NoContentType == <<>>

\* A response: its URL, status and declared content type, whether its body
\* parses as JSON and, if so, the decoded body.
Response(url, status, contentType, json, body) ==
  [url |-> url, status |-> status, contentType |-> contentType,
   json |-> json, body |-> body]

NoResponse == Response(<<>>, 0, NoContentType, FALSE, Undefined)

\* Two product lists that differ, one behind an object.
ListBody == JsonArray(ObjectRecords(MIN_PRODUCTS))

WrappedBody == JsonObject(<<JsonScalar("string"), JsonArray(ObjectRecords(2))>>)

Responses ==
  {Response(EntriesUrl, 200, ApplicationJson, TRUE, ListBody),
   Response(EntriesUrl, 200, JsonUtf8, TRUE, WrappedBody),
   Response(EntriesUrl, 200, TextHtml, TRUE, ListBody),
   Response(EntriesUrl, 200, NoContentType, TRUE, WrappedBody),
   Response(EntriesUrl, 200, TextHtml, FALSE, Undefined),
   Response(EntriesUrl, 200, ApplicationJson, FALSE, Undefined),
   Response(EntriesUrl, 404, ApplicationJson, TRUE, JsonObject(<<>>)),
   Response(EntryUrl, 200, ApplicationJson, TRUE, ListBody),
   Response(PageUrl, 200, TextHtml, FALSE, Undefined),
   Response(DoubledSlashUrl, 200, ApplicationJson, TRUE, ListBody)}

\* The glob setupApiInterception hands to page.route: `**/${endpoint}`.
RouteGlob(endpoint) == <<"*", "*", "/">> \o endpoint

\* The engine's match of a URL against a glob made of `**/` and a literal:
\* the deep star takes whole segments, each closed by its slash, and the
\* literal is the rest of the URL.
GlobMatches(glob, url) ==
  LET literal == SubSeq(glob, 4, Len(glob))
      taken == Len(url) - Len(literal)
  IN /\ taken >= 0
     /\ SubSeq(url, taken + 1, Len(url)) = literal
     /\ (taken = 0 \/ url[taken] = "/")

Request(url) == [url |-> url]

NoRequest == Request(<<>>)

\* What a route handler did with a request: its calls on the route, what it
\* logged and the request that went on to the network.
Routing(continues, aborts, fulfils, logged, sent) ==
  [continues |-> continues, aborts |-> aborts, fulfils |-> fulfils,
   logged |-> logged, sent |-> sent]

\* A request no route matches goes out as it is.
Unrouted(request) == Routing(0, 0, 0, <<>>, request)

\* A handler that blocks what it logs.
RouteHandler_aborting(request) ==
  Routing(0, 1, 0, request.url, NoRequest)

\* The handler of setupApiInterception: log the URL, then route.continue()
\* with no overrides.
RouteHandler(request) ==
  Routing(1, 0, 0, request.url, request)

\* One request of the page: whether the handler saw it, what became of it
\* and the server's response to it.
Routed(request, seen, handled, response) ==
  [request |-> request, seen |-> seen, handled |-> handled, response |-> response]

\* The predicate handed to page.waitForResponse with urlMatches alone.
Matches_urlOnly(response, endpoint, expectedStatus) ==
  Includes(response.url, endpoint)

\* The predicate handed to page.waitForResponse.
Matches(response, endpoint, expectedStatus) ==
  LET urlMatches == Includes(response.url, endpoint)
      statusMatches == response.status = expectedStatus
  IN urlMatches /\ statusMatches

ResponseWait(state, response, timeout) ==
  [state |-> state, response |-> response, timeout |-> timeout]

NoResponseWait == ResponseWait("none", NoResponse, 0)

\* A wait that every matching response settles anew.
Deliver_lastWins(w, response, endpoint, expectedStatus) ==
  IF w.state \in {"pending", "resolved"} /\ Matches(response, endpoint, expectedStatus)
  THEN ResponseWait("resolved", response, w.timeout)
  ELSE w

\* page.waitForResponse seeing a response: a pending wait resolves with the
\* first response its predicate accepts; a settled one stays as it is.
Deliver(w, response, endpoint, expectedStatus) ==
  IF w.state = "pending" /\ Matches(response, endpoint, expectedStatus)
  THEN ResponseWait("resolved", response, w.timeout)
  ELSE w

ApiError(endpoint, cause) ==
  [wrapper |-> "API interception failed for", endpoint |-> endpoint, cause |-> cause]

NoApiError == ApiError(<<>>, "")

\* How a call ended, and whether it logged the content-type warning.
ApiResult(done, outcome, body, error, warned) ==
  [done |-> done, outcome |-> outcome, body |-> body, error |-> error,
   warned |-> warned]

NoApiResult == ApiResult(FALSE, "none", Undefined, NoApiError, FALSE)

\* interceptApiRequest whose catch turns a timeout into a null body.
interceptApiRequest_timeoutReturnsNull(w, endpoint) ==
  LET mislabeled == ~Includes(w.response.contentType, ApplicationJson)
  IN IF w.state = "timeout"
     THEN ApiResult(TRUE, "returned", JsonScalar("null"), NoApiError, FALSE)
     ELSE IF ~w.response.json
     THEN ApiResult(TRUE, "threw", Undefined, ApiError(endpoint, "response.json"), mislabeled)
     ELSE ApiResult(TRUE, "returned", w.response.body, NoApiError, mislabeled)

\* interceptApiRequest throwing where it warns about the content type.
interceptApiRequest_strictContentType(w, endpoint) ==
  LET mislabeled == ~Includes(w.response.contentType, ApplicationJson)
  IN IF w.state = "timeout"
     THEN ApiResult(TRUE, "threw", Undefined, ApiError(endpoint, "TimeoutError"), FALSE)
     ELSE IF mislabeled
     THEN ApiResult(TRUE, "threw", Undefined, ApiError(endpoint, "content-type"), TRUE)
     ELSE IF ~w.response.json
     THEN ApiResult(TRUE, "threw", Undefined, ApiError(endpoint, "response.json"), mislabeled)
     ELSE ApiResult(TRUE, "returned", w.response.body, NoApiError, mislabeled)

\* interceptApiRequest from the settled wait on: a content type without
\* 'application/json' is warned about and nothing more; the result is the
\* awaited response's decoded body, or the wrapped error naming the endpoint
\* when the wait timed out or the body does not decode.
interceptApiRequest(w, endpoint) ==
  LET mislabeled == ~Includes(w.response.contentType, ApplicationJson)
  IN IF w.state = "timeout"
     THEN ApiResult(TRUE, "threw", Undefined, ApiError(endpoint, "TimeoutError"), FALSE)
     ELSE IF ~w.response.json
     THEN ApiResult(TRUE, "threw", Undefined, ApiError(endpoint, "response.json"), mislabeled)
     ELSE ApiResult(TRUE, "returned", w.response.body, NoApiError, mislabeled)

apiTestSteps ==
  <<"setupApiInterception", "goto", "interceptApiRequest", "validateProductListResponse">>

ApiAt(step) == apiPc \in DOMAIN apiTestSteps /\ apiTestSteps[apiPc] = step

ApiEnded == Len(apiTestSteps) + 1

(***************************************************************************)
(* The action wrappers.  Each hands its timeout to one engine primitive    *)
(* (getText to two in a row) inside a try whose catch rethrows the cause   *)
(* behind a description of the operation.  The target is known by the time *)
(* at which it comes to satisfy the primitive's condition, if ever, and by *)
(* its text.                                                               *)
(***************************************************************************)
\* TIMEOUTS.SHORT
SHORT == 5000

\* TIMEOUTS.MEDIUM
MEDIUM == 10000

\* Latest time, in steps of SHORT, at which a target comes to satisfy.
MaxReadyTicks == 3

\* Longest element text among the inputs.
MaxTextLen == 3

\* Largest configured maxRetries among the inputs.
MaxConfiguredRetries == 2

ActionWrappers ==
  {"clickElement", "fillInput", "verifyVisible", "verifyHidden", "verifyText", "getText"}

\* The engine primitives a wrapper calls, in order.
Primitives(op) ==
  CASE op = "clickElement" -> <<"click">>
    [] op = "fillInput" -> <<"fill">>
    [] op = "verifyVisible" -> <<"toBeVisible">>
    [] op = "verifyHidden" -> <<"toBeHidden">>
    [] op = "verifyText" -> <<"toContainText">>
    [] op = "getText" -> <<"waitFor", "textContent">>
    [] op = "getCount" -> <<"count">>

\* The words a wrapper's catch puts around the cause.
Phrase(op) ==
  CASE op = "clickElement" -> "failed"
    [] op = "fillInput" -> "Failed to fill field"
    [] op = "verifyVisible" -> "is not visible"
    [] op = "verifyHidden" -> "is still visible"
    [] op = "verifyText" -> "does not contain expected text"
    [] op = "getText" -> "Failed to get text from"
    [] op = "getCount" -> "Failed to count"

\* What the catch names when the caller gave no description.
DefaultSubject(op) ==
  CASE op = "clickElement" -> "Click action"
    [] op = "fillInput" -> "input"
    [] op \in {"verifyVisible", "verifyHidden", "verifyText", "getText"} -> "Element"
    [] op = "getCount" -> "elements"

ActionCall(op, described, timeout) ==
  [op |-> op, described |-> described, timeout |-> timeout]

NoActionCall == ActionCall("none", FALSE, 0)

Target(ever, readyAt, text) == [ever |-> ever, readyAt |-> readyAt, text |-> text]

NoTarget == Target(FALSE, 0, <<>>)

TextChars == {" ", "a"}

\* textContent() of the element; NullValue when it has none.
ElementTexts == SeqsUpTo(TextChars, MaxTextLen) \cup {NullValue}

Targets(op) ==
  {Target(ever, readyAt * SHORT, text) :
     ever \in BOOLEAN, readyAt \in 0..MaxReadyTicks,
     text \in IF op = "getText" THEN ElementTexts ELSE {<<"a">>}}

RetryConfig(maxRetries, retryDelay) ==
  [maxRetries |-> maxRetries, retryDelay |-> retryDelay]

\* getTestConfig().retries with MAX_RETRIES and RETRY_DELAY unset.
DefaultRetries == RetryConfig(2, 1000)

RetryConfigs ==
  {RetryConfig(m, d) : m \in 0..MaxConfiguredRetries, d \in {0, 1000}}

ActionError(phrase, subject, cause) ==
  [phrase |-> phrase, subject |-> subject, cause |-> cause]

NoActionError == ActionError("", "", "")

ActionResult(outcome, ret, error) == [outcome |-> outcome, ret |-> ret, error |-> error]

NoActionResult == ActionResult("none", NullValue, NoActionError)

RECURSIVE TrimStart(_)
TrimStart(s) == IF s # <<>> /\ Head(s) = " " THEN TrimStart(Tail(s)) ELSE s

RECURSIVE TrimEnd(_)
TrimEnd(s) ==
  IF s # <<>> /\ s[Len(s)] = " " THEN TrimEnd(SubSeq(s, 1, Len(s) - 1)) ELSE s

\* String.prototype.trim
Trim(s) == TrimEnd(TrimStart(s))

\* A wrapper's catch that logs and returns.
Caught_swallowed(call, cause) == ActionResult("returned", NullValue, NoActionError)

\* A wrapper's catch: the cause rethrown behind the phrase and the caller's
\* description, or the default one.
Caught(call, cause) ==
  ActionResult("threw", NullValue,
               ActionError(Phrase(call.op),
                           IF call.described THEN "described" ELSE DefaultSubject(call.op),
                           cause))

\* What a wrapper does once its primitives have succeeded: getText throws
\* inside its try when `!text` and returns text.trim() otherwise; the others
\* return nothing.
Completed(call, text) ==
  IF call.op = "getText"
  THEN IF text = NullValue \/ text = <<>>
       THEN Caught(call, "Element text is empty or null")
       ELSE ActionResult("returned", Trim(text), NoActionError)
  ELSE ActionResult("returned", NullValue, NoActionError)

\* What a locator matches at the moment it is counted, and whether
\* locator.count() itself throws.
Located(count, fails) == [count |-> count, fails |-> fails]

NothingLocated == Located(0, FALSE)

\* getCount treating an empty match as a failure.
getCount_zeroThrows(call, loc) ==
  IF loc.fails \/ loc.count = 0
  THEN Caught(call, "locator.count")
  ELSE ActionResult("returned", loc.count, NoActionError)

\* getCount: the number locator.count() gives, zero included; a throw of
\* locator.count() is rethrown behind 'Failed to count'.
getCount(call, loc) ==
  IF loc.fails
  THEN Caught(call, "locator.count")
  ELSE ActionResult("returned", loc.count, NoActionError)

\* A wrapper that calls its primitive again while attempts remain.
AfterFailure_retrying(attempts, config) ==
  IF attempts <= config.maxRetries THEN "retry" ELSE "throw"

\* What follows a failed primitive: the catch throws; TEST_CONFIG.retries is
\* read nowhere.
AfterFailure(attempts, config) == "throw"

\* The target satisfies the primitive's condition now.
Ready == target.ever /\ target.readyAt <= clock

(***************************************************************************)
(* The scenario: its steps in the order of the feature file, the helper    *)
(* each step calls, the places where a helper can fail and how its catch   *)
(* lets the failure out.                                                   *)
(***************************************************************************)
\* Most rows the cart shows among the inputs.
MaxCartRows == 2

\* The steps of checkout-flow.feature, each named after the helper its step
\* definition calls first.
scenarioSteps_cartAfterCheckout ==
  <<"navigateToBaseUrl", "login", "verifyLoggedIn", "selectProduct",
    "verifyProductDetails", "addProductToCart", "verifyAddToCartSuccess",
    "fillCheckoutForm", "verifyCartItems", "submitOrder",
    "verifyOrderConfirmation", "verifyOrderModalMessage">>

scenarioSteps ==
  <<"navigateToBaseUrl", "login", "verifyLoggedIn", "selectProduct",
    "verifyProductDetails", "addProductToCart", "verifyAddToCartSuccess",
    "verifyCartItems", "fillCheckoutForm", "submitOrder",
    "verifyOrderConfirmation", "verifyOrderModalMessage">>

\* The scenario state a step's success establishes, "" when it establishes
\* none.
Reaches(step) ==
  CASE step = "verifyLoggedIn" -> "Authenticated"
    [] step = "verifyProductDetails" -> "ProductSelected"
    [] step = "verifyCartItems" -> "InCart"
    [] step = "fillCheckoutForm" -> "CheckoutFormFilled"
    [] step = "submitOrder" -> "OrderSubmitted"
    [] step = "verifyOrderModalMessage" -> "Confirmed"
    [] OTHER -> ""

\* The message a helper's catch puts before the cause; "" where the catch
\* rethrows the error as it is.
HelperDescription(helper) ==
  CASE helper = "initializeBrowser" -> ""
    [] helper = "navigateToBaseUrl" -> ""
    [] helper = "login" -> "Login failed for user"
    [] helper = "verifyLoggedIn" -> "User verification failed for"
    [] helper = "selectProduct" -> "Product selection failed for"
    [] helper = "verifyProductDetails" -> "Product details verification failed for"
    [] helper = "addProductToCart" -> "Add to cart failed"
    [] helper = "verifyAddToCartSuccess" -> "Add to cart success verification failed"
    [] helper = "verifyCartItems" -> "Cart verification failed"
    [] helper = "verifyProductInCart" -> "Product verification in cart failed for"
    [] helper = "fillCheckoutForm" -> "Checkout form filling failed"
    [] helper = "submitOrder" -> "Order submission failed"
    [] helper = "verifyOrderConfirmation" -> "Order confirmation verification failed"
    [] helper = "verifyOrderModalMessage" -> "Order modal message verification failed"

StepError(description, cause) == [description |-> description, cause |-> cause]

NoStepError == StepError("", "")

StepOutcome(outcome, error) == [outcome |-> outcome, error |-> error]

Passed == StepOutcome("passed", NoStepError)

\* A failure raised inside a helper's try block.
Thrown(helper, cause) == StepOutcome("failed", StepError(HelperDescription(helper), cause))

\* A failure raised where no catch of the helper covers it.
Uncaught(cause) == StepOutcome("failed", StepError("", cause))

\* Where a step can fail other than on what the page shows: "none", or the
\* engine operation that throws.  The wait addProductToCart returns settles
\* after the function's try block was left.
StepFaults(step) ==
  CASE step = "navigateToBaseUrl" -> {"none", "page.goto"}
    [] step = "addProductToCart" -> {"none", "clickElement", "dialogPromise"}
    [] step \in {"login", "selectProduct", "fillCheckoutForm", "submitOrder"}
         -> {"none", "clickElement"}
    [] step = "verifyCartItems" -> {"none", "navigateToCart"}
    [] OTHER -> {"none", "verifyVisible"}

\* TEST_PRODUCT.name
TEST_PRODUCT_NAME ==
  <<"S", "a", "m", "s", "u", "n", "g", " ", "g", "a", "l", "a", "x", "y",
    " ", "s", "6">>

\* The product the feature file selects.
SelectedProduct ==
  <<"S", "a", "m", "s", "u", "n", "g", " ", "g", "a", "l", "a", "x", "y",
    " ", "s", "6">>

\* EXPECTED_MESSAGES.ORDER_SUCCESS
ORDER_SUCCESS ==
  <<"T", "h", "a", "n", "k", " ", "y", "o", "u", " ", "f", "o", "r", " ",
    "y", "o", "u", "r", " ", "p", "u", "r", "c", "h", "a", "s", "e", "!">>

SamsungRow ==
  <<"S", "a", "m", "s", "u", "n", "g", " ", "g", "a", "l", "a", "x", "y",
    " ", "s", "6", " ", "3", "6", "0">>

SamsungUpperRow ==
  <<"S", "A", "M", "S", "U", "N", "G", " ", "G", "A", "L", "A", "X", "Y",
    " ", "S", "6", " ", "3", "6", "0">>

NokiaRow ==
  <<"N", "o", "k", "i", "a", " ", "l", "u", "m", "i", "a", " ", "1", "5",
    "2", "0", " ", "8", "2", "0">>

RowTexts == {SamsungRow, SamsungUpperRow, NokiaRow}

\* The rows of #tbodyid, top to bottom.
Carts == SeqsUpTo(RowTexts, MaxCartRows)

ThankYouLower ==
  <<"t", "h", "a", "n", "k", " ", "y", "o", "u", " ", "f", "o", "r", " ",
    "y", "o", "u", "r", " ", "p", "u", "r", "c", "h", "a", "s", "e", "!">>

ThankYouSpaced ==
  <<" ", " ", "T", "h", "a", "n", "k", " ", " ", "y", "o", "u", " ", "f",
    "o", "r", " ", "y", "o", "u", "r", " ", "p", "u", "r", "c", "h", "a",
    "s", "e", "!", " ">>

ThankYouAndMore ==
  <<"T", "h", "a", "n", "k", " ", "y", "o", "u", " ", "f", "o", "r", " ",
    "y", "o", "u", "r", " ", "p", "u", "r", "c", "h", "a", "s", "e", "!",
    " ", "N", "o", "t", ".">>

SorryTitle ==
  <<"S", "o", "r", "r", "y">>

\* The text of `.sweet-alert h2`; NullValue when the element is absent.
Titles ==
  {ORDER_SUCCESS, ThankYouLower, ThankYouSpaced, ThankYouAndMore, SorryTitle, NullValue}

RECURSIVE CollapseSpaces(_)
CollapseSpaces(s) ==
  IF Len(s) < 2 THEN s
  ELSE IF s[1] = " " /\ s[2] = " " THEN CollapseSpaces(Tail(s))
  ELSE <<s[1]>> \o CollapseSpaces(Tail(s))

\* The white-space normalisation of the engine's text matchers.
NormalizeWhiteSpace(s) == Trim(CollapseSpaces(s))

\* expect(locator).toContainText(expected): a case-sensitive substring test
\* on the normalised texts.
toContainText(text, expectedText) ==
  Includes(NormalizeWhiteSpace(text), NormalizeWhiteSpace(expectedText))

\* locator.filter({hasText}): the rows whose text contains the given text,
\* letter case ignored.
FilterHasText(rows, text) ==
  {i \in DOMAIN rows : Includes(ToLowerCase(rows[i]), ToLowerCase(text))}

\* verifyCartItems(page, expectedItemCount): navigateToCart, verifyVisible on
\* the locator of all rows, getCount, expect(count).toEqual.  toBeVisible is
\* strict: it needs its locator to match one element.
verifyCartItems(rows, expectedItemCount, fault) ==
  IF fault # "none" THEN Thrown("verifyCartItems", fault)
  ELSE IF Len(rows) = 0 THEN Thrown("verifyCartItems", "Cart items is not visible")
  ELSE IF Len(rows) > 1 THEN Thrown("verifyCartItems", "strict mode violation")
  ELSE IF Len(rows) # expectedItemCount THEN Thrown("verifyCartItems", "toEqual")
  ELSE Passed

\* The cart-check step without its verifyProductInCart call.
CartCheck_countOnly(rows, fault) == verifyCartItems(rows, 1, fault)

\* Then the cart items should be verified: verifyCartItems(page, 1) and then
\* verifyProductInCart(page, TEST_PRODUCT.name).
CartCheck(rows, fault) ==
  IF verifyCartItems(rows, 1, fault) # Passed THEN verifyCartItems(rows, 1, fault)
  ELSE LET cartItem == FilterHasText(rows, TEST_PRODUCT_NAME)
       IN IF cartItem = {} THEN Thrown("verifyProductInCart", "Cart item is not visible")
          ELSE IF Cardinality(cartItem) > 1
          THEN Thrown("verifyProductInCart", "strict mode violation")
          ELSE Passed

\* Then I should see the {string} modal: verifyOrderModalMessage(page,
\* EXPECTED_MESSAGES.ORDER_SUCCESS): the title visible, verifyText on the
\* title, then the details and the OK button visible.
ModalCheck(titleText, fault) ==
  IF titleText = NullValue
  THEN Thrown("verifyOrderModalMessage", "Order success message is not visible")
  ELSE IF ~toContainText(titleText, ORDER_SUCCESS)
  THEN Thrown("verifyOrderModalMessage", "toContainText")
  ELSE IF fault # "none" THEN Thrown("verifyOrderModalMessage", fault)
  ELSE Passed

\* What a step yields at the step layer.
RunHelper(step, fault, rows, titleText) ==
  CASE step = "verifyCartItems" -> CartCheck(rows, fault)
    [] step = "verifyOrderModalMessage" -> ModalCheck(titleText, fault)
    [] step = "addProductToCart" /\ fault = "dialogPromise" -> Uncaught("TimeoutError")
    [] OTHER -> IF fault = "none" THEN Passed ELSE Thrown(step, fault)

\* The {string} values of the two parameterised phrases.
Feature(productName, expectedMessage) ==
  [productName |-> productName, expectedMessage |-> expectedMessage]

\* checkout-flow.feature as it is written.
FeatureAsWritten == Feature(SelectedProduct, ORDER_SUCCESS)

OtherProduct == <<"N", "e", "x", "u", "s", " ", "6">>

OtherMessage == <<"O", "r", "d", "e", "r", " ", "p", "l", "a", "c", "e", "d">>

\* The feature file as written and with other values in its phrases.
Features == {FeatureAsWritten, Feature(OtherProduct, OtherMessage)}

\* The value a step definition hands to its helper: selectProduct gets the
\* phrase's productName; the details step, the cart step and the modal step
\* hand over the fixture's value.
HelperArgument(step, ph) ==
  CASE step = "selectProduct" -> ph.productName
    [] step = "verifyProductDetails" -> TEST_PRODUCT_NAME
    [] step = "verifyCartItems" -> TEST_PRODUCT_NAME
    [] step = "verifyOrderModalMessage" -> ORDER_SUCCESS
    [] OTHER -> NullValue

\* The timeout the step definition gives its phrase.
StepBudget(step) ==
  CASE step \in {"navigateToBaseUrl", "login", "selectProduct", "fillCheckoutForm"} -> 60000
    [] OTHER -> 30000

\* The timeouts of the bounded waits a step performs one after another when
\* none fails: a wrapper call with no timeout given waits up to MEDIUM.
StepWaits(step) ==
  CASE step = "navigateToBaseUrl" -> <<LONG>>
    [] step = "login" -> <<MEDIUM, MEDIUM, MEDIUM, MEDIUM, MEDIUM>>
    [] step = "verifyLoggedIn" -> <<MEDIUM, MEDIUM>>
    [] step = "selectProduct" -> <<MEDIUM>>
    [] step = "verifyProductDetails" -> <<MEDIUM, MEDIUM, MEDIUM>>
    [] step = "addProductToCart" -> <<MEDIUM, MEDIUM>>
    [] step = "verifyAddToCartSuccess" -> <<>>
    [] step = "verifyCartItems" -> <<MEDIUM, MEDIUM, MEDIUM, MEDIUM, MEDIUM>>
    [] step = "fillCheckoutForm" ->
         <<MEDIUM, MEDIUM, MEDIUM, MEDIUM, MEDIUM, MEDIUM, MEDIUM, MEDIUM, MEDIUM>>
    [] step = "submitOrder" -> <<MEDIUM>>
    [] step = "verifyOrderConfirmation" -> <<MEDIUM, MEDIUM, MEDIUM>>
    [] step = "verifyOrderModalMessage" -> <<MEDIUM, MEDIUM, MEDIUM, MEDIUM>>

RECURSIVE Sum(_)
Sum(s) == IF s = <<>> THEN 0 ELSE Head(s) + Sum(Tail(s))

\* The time a step takes whose waits all succeed, each at the last moment
\* when slow and at once otherwise.
Elapsed(step, slow) == IF slow THEN Sum(StepWaits(step)) ELSE 0

\* The runner's verdict on a step: its own timeout error when the step
\* function has not settled within the budget, else what the helper yields.
StepVerdict(step, slow, o) ==
  IF o = Passed /\ Elapsed(step, slow) > StepBudget(step)
  THEN Uncaught("function timed out")
  ELSE o

\* A runner that goes on with the next step after a failed one.
AfterFailedStep_continue(k) == IF k < Len(scenarioSteps) THEN "steps" ELSE "after"

\* Where the runner goes after step k failed: the remaining steps are
\* skipped and the After hook runs.
AfterFailedStep(k) == "after"

InitSession ==
  /\ browser = Null
  /\ context = Null
  /\ page = Null
  /\ nextId = 1
  /\ closeAttempted = {}
  /\ last = NoCall
  /\ prev = NoCall
  /\ engine = "none"

InitHooks ==
  /\ stepPage = Null
  /\ runPhase = "idle"
  /\ scenarioResult = "none"
  /\ reported = "none"
  /\ usedByEarlierRuns = {}


InitDialog ==
  /\ flow = "idle"
  /\ pc = 0
  /\ triggered = FALSE
  /\ wait = NoWait
  /\ dlg = NoDialog
  /\ held = NullValue
  /\ expected = NoExpectation
  /\ trace = <<>>
  /\ result = NoResult

\* No validation is under way.
InitValidateIdle ==
  /\ responseData = JsonScalar("null")
  /\ minProducts = MIN_PRODUCTS
  /\ validation = NotValidated

\* The API test has not begun.
InitApi ==
  /\ apiPc = 0
  /\ routeInstalled = FALSE
  /\ nav = "none"
  /\ arrivals = <<>>
  /\ registeredAt = Null
  /\ respWait = NoResponseWait
  /\ apiResult = NoApiResult
  /\ routes = <<>>

\* BROWSER is not set in the environment.
InitConfig == BROWSER = EnvUnset

\* No wrapper has been called.
InitAction ==
  /\ act = NoActionCall
  /\ target = NoTarget
  /\ clock = 0
  /\ actPhase = "idle"
  /\ invocations = <<>>
  /\ actResult = NoActionResult
  /\ retries = DefaultRetries
  /\ located = NothingLocated

\* No scenario has begun.
InitScenario ==
  /\ scPc = 0
  /\ executed = <<>>
  /\ visited = <<"Start">>
  /\ failedAt = 0
  /\ surfaced = NoStepError
  /\ cart = <<>>
  /\ title = NullValue
  /\ elapsed = 0
  /\ feature = FeatureAsWritten
  /\ handed = <<>>

InitRest == InitValidateIdle /\ InitApi /\ InitConfig /\ InitAction /\ InitScenario

Init == InitSession /\ InitHooks /\ InitDialog /\ InitRest

\* A direct call of the exported initializeBrowser.
InitializeBrowserCall ==
  \E failAt \in InitFailures :
    LET r == initializeBrowser(Current, nextId, failAt)
    IN /\ r.nextId <= MaxHandles + 1
       /\ Apply("initializeBrowser", r)
       /\ UNCHANGED <<hookVars, dialogVars, restVars>>

\* A direct call of the exported cleanupBrowser.
CleanupBrowserCall ==
  \E failAt \in CloseFailures :
    LET r == cleanupBrowser(Current, nextId, failAt)
    IN /\ Apply("cleanupBrowser", r)
       /\ UNCHANGED <<hookVars, dialogVars, restVars>>

NextSession == InitializeBrowserCall \/ CleanupBrowserCall

SpecSession == Init /\ [][NextSession]_vars

\* The same calls under every value of BROWSER.
InitLaunch ==
  /\ InitSession /\ InitHooks /\ InitDialog /\ InitValidateIdle /\ InitApi /\ InitAction /\ InitScenario
  /\ BROWSER \in EnvValues

SpecLaunch == InitLaunch /\ [][NextSession]_vars

(***************************************************************************)
(* The Cucumber hooks and the scenario between them.  Before assigns the   *)
(* page initializeBrowser returns to the step layer's `page`; when Before  *)
(* fails the steps are skipped and After still runs.  After calls          *)
(* cleanupBrowser; a hook that throws is reported in place of the          *)
(* scenario's own result.                                                  *)
(***************************************************************************)
Handles(s) == {s.browser, s.context, s.page} \ {Null}

Before ==
  /\ runPhase = "idle"
  /\ \E failAt \in InitFailures :
       LET r == initializeBrowser(Current, nextId, failAt)
       IN /\ r.nextId <= MaxHandles + 1
          /\ Apply("initializeBrowser", r)
          /\ stepPage' = IF r.outcome = "returned" THEN r.ret ELSE stepPage
          /\ runPhase' = IF r.outcome = "returned" THEN "steps" ELSE "skipped"
          /\ scenarioResult' = IF r.outcome = "returned" THEN "none" ELSE "failed"
          /\ surfaced' = IF r.outcome = "returned" THEN NoStepError
                         ELSE Uncaught(failAt).error
  /\ reported' = "none"
  /\ scPc' = 0
  /\ executed' = <<>>
  /\ visited' = <<"Start">>
  /\ failedAt' = 0
  /\ cart' = <<>>
  /\ title' = NullValue
  /\ elapsed' = 0
  /\ feature' \in Features
  /\ handed' = <<>>
  /\ UNCHANGED <<usedByEarlierRuns, dialogVars, validateVars, apiVars, configVars,
                 actionVars>>

\* The steps of the scenario, as far as the hooks see them: they pass or fail.
ScenarioSteps ==
  /\ runPhase = "steps"
  /\ \E verdict \in {"passed", "failed"} : scenarioResult' = verdict
  /\ runPhase' = "after"
  /\ UNCHANGED <<sessionVars, stepPage, reported, usedByEarlierRuns, dialogVars, restVars>>

After ==
  /\ runPhase \in {"after", "skipped"}
  /\ \E failAt \in CloseFailures :
       LET r == cleanupBrowser(Current, nextId, failAt)
       IN /\ Apply("cleanupBrowser", r)
          /\ reported' = IF r.outcome = "threw" THEN "hook error" ELSE scenarioResult
  /\ runPhase' = "idle"
  /\ usedByEarlierRuns' = usedByEarlierRuns \cup Handles(Current)
  /\ UNCHANGED <<stepPage, scenarioResult, dialogVars, restVars>>

NextHooks == Before \/ ScenarioSteps \/ After

SpecHooks == Init /\ [][NextHooks]_vars

(***************************************************************************)
(* The scenario step by step between the hooks.                            *)
(***************************************************************************)
\* The runner executes the next step of the scenario.
RunStep ==
  /\ runPhase = "steps"
  /\ scPc < Len(scenarioSteps)
  /\ LET k == scPc + 1
         step == scenarioSteps[k]
     IN \E fault \in StepFaults(step), slow \in BOOLEAN,
           rows \in IF step = "verifyCartItems" THEN Carts ELSE {cart},
           titleText \in IF step = "verifyOrderModalMessage" THEN Titles ELSE {title} :
          LET h == RunHelper(step, fault, rows, titleText)
              o == StepVerdict(step, slow, h)
          IN /\ scPc' = k
             /\ elapsed' = IF h = Passed THEN Elapsed(step, slow) ELSE 0
             /\ handed' = Append(handed, HelperArgument(step, feature))
             /\ UNCHANGED feature
             /\ executed' = Append(executed, step)
             /\ cart' = rows
             /\ title' = titleText
             /\ IF o.outcome = "passed"
                THEN /\ visited' = IF Reaches(step) = "" THEN visited
                                   ELSE Append(visited, Reaches(step))
                     /\ runPhase' = IF k = Len(scenarioSteps) THEN "after" ELSE "steps"
                     /\ scenarioResult' = IF k = Len(scenarioSteps) /\ failedAt = 0
                                          THEN "passed" ELSE scenarioResult
                     /\ UNCHANGED <<failedAt, surfaced>>
                ELSE /\ runPhase' = AfterFailedStep(k)
                     /\ scenarioResult' = "failed"
                     /\ failedAt' = IF failedAt = 0 THEN k ELSE failedAt
                     /\ surfaced' = IF failedAt = 0 THEN o.error ELSE surfaced
                     /\ UNCHANGED visited
  /\ UNCHANGED <<sessionVars, stepPage, reported, usedByEarlierRuns, dialogVars,
                 validateVars, apiVars, configVars, actionVars>>

NextScenario == Before \/ RunStep \/ After

SpecScenario == Init /\ [][NextScenario]_vars

(***************************************************************************)
(* The dialog operations.  The order in which an operation arms its wait,  *)
(* issues its click and awaits the wait is the order of its statements.    *)
(***************************************************************************)
loginSteps_armAfterClick == <<"form", "click", "arm", "await">>

\* login: link and credential fields, waitForEvent, click, await.
loginSteps == <<"form", "arm", "click", "await">>

\* addProductToCart: waitForEvent, click, return of the wait.
addProductToCartSteps == <<"arm", "click", "return">>

\* handleDialog: waitForEvent awaited where it is armed.
handleDialogSteps == <<"arm", "await">>

Steps(op) ==
  CASE op = "login" -> loginSteps
    [] op = "addProductToCart" -> addProductToCartSteps
    [] op = "handleDialog" -> handleDialogSteps
    [] OTHER -> <<>>

Running == flow \in {"login", "addProductToCart", "handleDialog"}

AtStep(kind) ==
  /\ Running
  /\ pc \in DOMAIN Steps(flow)
  /\ Steps(flow)[pc] = kind

\* The description each operation's catch puts in front of the cause.
Wrapper(op) ==
  CASE op = "login" -> "Login failed for user"
    [] op = "addProductToCart" -> "Add to cart failed"
    [] op = "handleDialog" -> "Dialog handling failed"
    [] op = "verifyAddToCartSuccess" -> "Add to cart success verification failed"

\* login without the .catch(() => null) on its wait: the timeout is thrown.
login_timeoutThrows(w) ==
  IF w.state # "dialog"
  THEN Outcome("threw", NullValue, <<Wrapper("login"), "TimeoutError">>, <<"throw">>)
  ELSE LET message == w.msg
       IN IF \/ Includes(ToLowerCase(message), WrongPassword)
             \/ Includes(ToLowerCase(message), UserDoesNotExist)
          THEN Outcome("threw", NullValue, <<Wrapper("login"), "Login failed">>,
                       <<"accept", "throw">>)
          ELSE Outcome("returned", NullValue, <<>>, <<"accept">>)

\* login comparing the message as it is written.
login_caseSensitive(w) ==
  IF w.state # "dialog"
  THEN Outcome("returned", NullValue, <<>>, <<>>)
  ELSE LET message == w.msg
       IN IF \/ Includes(message, WrongPassword)
             \/ Includes(message, UserDoesNotExist)
          THEN Outcome("threw", NullValue, <<Wrapper("login"), "Login failed">>,
                       <<"accept", "throw">>)
          ELSE Outcome("returned", NullValue, <<>>, <<"accept">>)

\* login, step 5: what it does with the settled wait (null when the wait
\* timed out): the dialog is accepted, then its message decides.
login(w) ==
  IF w.state # "dialog"
  THEN Outcome("returned", NullValue, <<>>, <<>>)
  ELSE LET message == w.msg
       IN IF \/ Includes(ToLowerCase(message), WrongPassword)
             \/ Includes(ToLowerCase(message), UserDoesNotExist)
          THEN Outcome("threw", NullValue, <<Wrapper("login"), "Login failed">>,
                       <<"accept", "throw">>)
          ELSE Outcome("returned", NullValue, <<>>, <<"accept">>)

\* verifyAddToCartSuccess throwing on an unexpected message without accepting.
verifyAddToCartSuccess_throwsUnaccepted(message) ==
  LET messageLower == ToLowerCase(message)
  IN IF ~Includes(messageLower, ProductAdded) /\ ~Includes(messageLower, Added)
     THEN Outcome("threw", NullValue,
                  <<Wrapper("verifyAddToCartSuccess"), "Unexpected dialog message">>,
                  <<"throw">>)
     ELSE Outcome("returned", NullValue, <<>>, <<"accept">>)

\* verifyAddToCartSuccess on the dialog it is given.
verifyAddToCartSuccess(message) ==
  LET messageLower == ToLowerCase(message)
  IN IF ~Includes(messageLower, ProductAdded) /\ ~Includes(messageLower, Added)
     THEN Outcome("threw", NullValue,
                  <<Wrapper("verifyAddToCartSuccess"), "Unexpected dialog message">>,
                  <<"accept", "throw">>)
     ELSE Outcome("returned", NullValue, <<>>, <<"accept">>)

\* handleDialog lower-casing the expectation only.
handleDialog_caseSensitive(w, expectedMessage) ==
  IF w.state # "dialog"
  THEN Outcome("returned", NullValue, <<>>, <<>>)
  ELSE LET message == w.msg
       IN IF /\ expectedMessage.supplied
             /\ expectedMessage.text # <<>>
             /\ ~Includes(message, ToLowerCase(expectedMessage.text))
          THEN Outcome("threw", NullValue,
                       <<Wrapper("handleDialog"), "Unexpected dialog message">>,
                       <<"accept", "throw">>)
          ELSE Outcome("returned", message, <<>>, <<"accept">>)

\* handleDialog without the .catch(() => null) on its wait.
handleDialog_timeoutThrows(w, expectedMessage) ==
  IF w.state # "dialog"
  THEN Outcome("threw", NullValue, <<Wrapper("handleDialog"), "TimeoutError">>,
               <<"throw">>)
  ELSE LET message == w.msg
       IN IF /\ expectedMessage.supplied
             /\ expectedMessage.text # <<>>
             /\ ~Includes(ToLowerCase(message), ToLowerCase(expectedMessage.text))
          THEN Outcome("threw", NullValue,
                       <<Wrapper("handleDialog"), "Unexpected dialog message">>,
                       <<"accept", "throw">>)
          ELSE Outcome("returned", message, <<>>, <<"accept">>)

\* handleDialog on the settled wait: null when it timed out; otherwise the
\* dialog is accepted and then checked against a non-empty expectedMessage.
handleDialog(w, expectedMessage) ==
  IF w.state # "dialog"
  THEN Outcome("returned", NullValue, <<>>, <<>>)
  ELSE LET message == w.msg
       IN IF /\ expectedMessage.supplied
             /\ expectedMessage.text # <<>>
             /\ ~Includes(ToLowerCase(message), ToLowerCase(expectedMessage.text))
          THEN Outcome("threw", NullValue,
                       <<Wrapper("handleDialog"), "Unexpected dialog message">>,
                       <<"accept", "throw">>)
          ELSE Outcome("returned", message, <<>>, <<"accept">>)

Count(events, e) == Cardinality({i \in DOMAIN events : events[i] = e})

\* The dialog after the dialog.accept() calls among events.
Accepted(d, events) ==
  IF Count(events, "accept") = 0 THEN d
  ELSE Dialog("accepted", d.msg, d.accepts + Count(events, "accept"))

\* An operation starts: nothing armed, nothing triggered, no dialog.
Begin(op, e, trig) ==
  /\ flow = "idle"
  /\ flow' = op
  /\ pc' = 1
  /\ triggered' = trig
  /\ wait' = NoWait
  /\ dlg' = NoDialog
  /\ held' = NullValue
  /\ expected' = e
  /\ trace' = <<>>
  /\ result' = NoResult
  /\ UNCHANGED <<sessionVars, hookVars, restVars>>

BeginLogin == Begin("login", NoExpectation, FALSE)

BeginAddProductToCart == Begin("addProductToCart", NoExpectation, FALSE)

\* handleDialog clicks nothing itself: what raises its dialog happens outside.
BeginHandleDialog == \E e \in Expectations : Begin("handleDialog", e, TRUE)

\* The operation ends in its catch: the cause is wrapped and rethrown, the
\* step fails and the scenario runs no further step.  An armed wait stays.
Fail(cause) ==
  /\ result' = Result(flow, FALSE, NullValue,
                      Outcome("threw", NullValue, <<Wrapper(flow), cause>>, <<>>))
  /\ flow' = "halted"
  /\ trace' = Append(trace, "throw")

\* login, steps 1 and 2: the login link and the two credential fields.
StepForm ==
  /\ AtStep("form")
  /\ \/ /\ pc' = pc + 1
        /\ UNCHANGED <<flow, trace, result>>
     \/ /\ Fail("Failed to click")
        /\ UNCHANGED pc
  /\ UNCHANGED <<sessionVars, hookVars, restVars, triggered, wait, dlg, held, expected>>

\* page.waitForEvent('dialog', { timeout }): the listener is registered.
StepArm ==
  /\ AtStep("arm")
  /\ wait' = Wait("pending", NullValue)
  /\ trace' = Append(trace, "arm")
  /\ pc' = pc + 1
  /\ UNCHANGED <<sessionVars, hookVars, restVars, flow, triggered, dlg, held, expected, result>>

\* clickElement: the click is dispatched to the page, or fails before that.
StepClickIssue ==
  /\ AtStep("click")
  /\ ~triggered
  /\ \/ /\ triggered' = TRUE
        /\ trace' = Append(trace, "click")
        /\ UNCHANGED <<flow, result>>
     \/ /\ Fail("Failed to click")
        /\ UNCHANGED triggered
  /\ UNCHANGED <<sessionVars, hookVars, restVars, pc, wait, dlg, held, expected>>

\* clickElement returns, or fails after the click was dispatched.
StepClickDone ==
  /\ AtStep("click")
  /\ triggered
  /\ \/ /\ pc' = pc + 1
        /\ trace' = Append(trace, "clicked")
        /\ UNCHANGED <<flow, result>>
     \/ /\ Fail("Failed to click")
        /\ UNCHANGED pc
  /\ UNCHANGED <<sessionVars, hookVars, restVars, triggered, wait, dlg, held, expected>>

\* `await dialogPromise` of login and the awaited wait of handleDialog: the
\* operation goes on when the wait has settled.
StepAwait ==
  /\ AtStep("await")
  /\ wait.state \in {"dialog", "timeout"}
  /\ LET o == IF flow = "login" THEN login(wait) ELSE handleDialog(wait, expected)
         got == IF wait.state = "dialog" THEN wait.msg ELSE NullValue
     IN /\ result' = Result(flow, TRUE, got, o)
        /\ dlg' = Accepted(dlg, o.events)
        /\ trace' = Append(trace, "await") \o o.events
        /\ flow' = IF o.outcome = "threw" THEN "halted" ELSE "idle"
  /\ UNCHANGED <<sessionVars, hookVars, restVars, pc, triggered, wait, held, expected>>

\* addProductToCart catching its wait's timeout the way login does: the step
\* passes and stores null.
StepReturn_timeoutIsNull ==
  /\ AtStep("return")
  /\ wait.state \in {"dialog", "timeout"}
  /\ held' = wait.msg
  /\ result' = Result(flow, TRUE, wait.msg, Outcome("returned", wait.msg, <<>>, <<>>))
  /\ flow' = "added"
  /\ trace' = Append(trace, "await")
  /\ UNCHANGED <<sessionVars, hookVars, restVars, pc, triggered, wait, dlg, expected>>

\* `return dialogPromise` in the async addProductToCart: its own promise
\* follows the wait, so `await addProductToCart(page)` in the step yields the
\* dialog when the wait resolves and rejects with the wait's timeout, which
\* the try block no longer covers.
StepReturn ==
  /\ AtStep("return")
  /\ wait.state \in {"dialog", "timeout"}
  /\ IF wait.state = "dialog"
     THEN /\ held' = wait.msg
          /\ result' = Result(flow, TRUE, wait.msg,
                              Outcome("returned", wait.msg, <<>>, <<>>))
          /\ flow' = "added"
          /\ trace' = Append(trace, "await")
     ELSE /\ result' = Result(flow, TRUE, NullValue,
                              Outcome("threw", NullValue, <<"TimeoutError">>, <<>>))
          /\ flow' = "halted"
          /\ trace' = trace \o <<"await", "throw">>
          /\ UNCHANGED held
  /\ UNCHANGED <<sessionVars, hookVars, restVars, pc, triggered, wait, dlg, expected>>

\* Then a success message should appear: verifyAddToCartSuccess on what the
\* add-to-cart step stored in this.dialogPromise.
VerifyAddToCartSuccessStep ==
  /\ flow = "added"
  /\ LET o == verifyAddToCartSuccess(held)
     IN /\ result' = Result("verifyAddToCartSuccess", TRUE, held, o)
        /\ dlg' = Accepted(dlg, o.events)
        /\ trace' = trace \o o.events
        /\ flow' = IF o.outcome = "threw" THEN "halted" ELSE "idle"
  /\ UNCHANGED <<sessionVars, hookVars, restVars, pc, triggered, wait, held, expected>>

\* The page raises the dialog its trigger leads to.  A pending wait receives
\* it; with no listener registered the engine dismisses it at once.
DialogFires ==
  /\ triggered
  /\ dlg.state = "none"
  /\ flow # "idle"
  /\ \E m \in DialogMessages :
       IF wait.state = "pending"
       THEN /\ wait' = Wait("dialog", m)
            /\ dlg' = Dialog("open", m, 0)
       ELSE /\ dlg' = Dialog("dismissed", m, 0)
            /\ UNCHANGED wait
  /\ trace' = Append(trace, "dialog")
  /\ UNCHANGED <<sessionVars, hookVars, restVars, flow, pc, triggered, held, expected, result>>

\* The timeout of a pending wait expires.
WaitTimeout ==
  /\ wait.state = "pending"
  /\ flow # "idle"
  /\ wait' = Wait("timeout", NullValue)
  /\ trace' = Append(trace, "timeout")
  /\ UNCHANGED <<sessionVars, hookVars, restVars, flow, pc, triggered, dlg, held, expected, result>>

NextDialog ==
  \/ BeginLogin
  \/ BeginAddProductToCart
  \/ BeginHandleDialog
  \/ StepForm
  \/ StepArm
  \/ StepClickIssue
  \/ StepClickDone
  \/ StepAwait
  \/ StepReturn
  \/ VerifyAddToCartSuccessStep
  \/ DialogFires
  \/ WaitTimeout

SpecDialog == Init /\ [][NextDialog]_vars

(***************************************************************************)
(* validateProductListResponse on its own: any body, any minimum.          *)
(***************************************************************************)
InitValidate ==
  /\ InitSession /\ InitHooks /\ InitDialog /\ InitApi /\ InitConfig /\ InitAction /\ InitScenario
  /\ responseData \in ResponseBodies
  /\ minProducts \in 0..MaxMinProducts
  /\ validation = NotValidated

ValidateCall ==
  /\ ~validation.done
  /\ validation' = validateProductListResponse(responseData, minProducts)
  /\ UNCHANGED <<sessionVars, hookVars, dialogVars, apiVars, configVars, actionVars,
                 scenarioVars, responseData, minProducts>>

NextValidate == ValidateCall

SpecValidate == InitValidate /\ [][NextValidate]_vars

(***************************************************************************)
(* The API test, statement by statement, with the page's responses and the *)
(* wait's timer as events of their own.                                    *)
(***************************************************************************)
otherVars == <<sessionVars, hookVars, dialogVars, configVars, actionVars, scenarioVars>>

ApiTestBegin ==
  /\ apiPc = 0
  /\ apiPc' = 1
  /\ UNCHANGED <<otherVars, validateVars, routes, routeInstalled, nav, arrivals,
                 registeredAt, respWait, apiResult>>

\* await setupApiInterception(page, API_ENDPOINTS.ENTRIES)
StepSetupApiInterception ==
  /\ ApiAt("setupApiInterception")
  /\ routeInstalled' = TRUE
  /\ apiPc' = apiPc + 1
  /\ UNCHANGED <<otherVars, validateVars, routes, nav, arrivals, registeredAt, respWait, apiResult>>

\* page.goto('/') is issued.
StepGotoStart ==
  /\ ApiAt("goto")
  /\ nav = "none"
  /\ nav' = "started"
  /\ UNCHANGED <<otherVars, validateVars, apiPc, routes, routeInstalled, arrivals,
                 registeredAt, respWait, apiResult>>

\* page.goto('/') settles: domcontentloaded, or a navigation error that ends
\* the test.
StepGotoDone ==
  /\ ApiAt("goto")
  /\ nav = "started"
  /\ \E ok \in BOOLEAN :
       IF ok
       THEN /\ nav' = "loaded"
            /\ apiPc' = apiPc + 1
            /\ UNCHANGED apiResult
       ELSE /\ nav' = "failed"
            /\ apiPc' = ApiEnded
            /\ apiResult' = ApiResult(TRUE, "threw", Undefined, ApiError(<<>>, "page.goto"), FALSE)
  /\ UNCHANGED <<otherVars, validateVars, routes, routeInstalled, arrivals, registeredAt, respWait>>

\* The page issues a request: a handler installed on a matching route sees
\* it first, and the response to a request that reaches the network as it
\* was issued comes back to the page.
ResponseArrives ==
  /\ apiPc \in DOMAIN apiTestSteps
  /\ nav \in {"started", "loaded"}
  /\ Len(routes) < MaxResponses
  /\ \E response \in Responses :
       LET request == Request(response.url)
           seen == routeInstalled /\ GlobMatches(RouteGlob(ENTRIES), request.url)
           handled == IF seen THEN RouteHandler(request) ELSE Unrouted(request)
       IN /\ routes' = Append(routes, Routed(request, seen, handled, response))
          /\ IF handled.sent = request
             THEN /\ arrivals' = Append(arrivals, response)
                  /\ respWait' = Deliver(respWait, response, ENTRIES, ExpectedStatus)
             ELSE UNCHANGED <<arrivals, respWait>>
  /\ UNCHANGED <<otherVars, validateVars, apiPc, routeInstalled, nav, registeredAt, apiResult>>

\* interceptApiRequest calls page.waitForResponse(predicate, {timeout: LONG}).
StepInterceptArm ==
  /\ ApiAt("interceptApiRequest")
  /\ respWait.state = "none"
  /\ respWait' = ResponseWait("pending", NoResponse, LONG)
  /\ registeredAt' = Len(arrivals)
  /\ UNCHANGED <<otherVars, validateVars, apiPc, routes, routeInstalled, nav, arrivals, apiResult>>

\* The wait's timer runs out; a timeout of 0 would disable it.
ApiWaitTimeout ==
  /\ respWait.state = "pending"
  /\ respWait.timeout > 0
  /\ respWait' = ResponseWait("timeout", NoResponse, respWait.timeout)
  /\ UNCHANGED <<otherVars, validateVars, apiPc, routes, routeInstalled, nav, arrivals,
                 registeredAt, apiResult>>

\* const responseData = await interceptApiRequest(...): the rest of the call
\* once the wait has settled; a throw ends the test.
StepInterceptAwait ==
  /\ ApiAt("interceptApiRequest")
  /\ respWait.state \in {"resolved", "timeout"}
  /\ LET r == interceptApiRequest(respWait, ENTRIES)
     IN /\ apiResult' = r
        /\ IF r.outcome = "returned"
           THEN responseData' = r.body /\ apiPc' = apiPc + 1
           ELSE UNCHANGED responseData /\ apiPc' = ApiEnded
  /\ UNCHANGED <<otherVars, minProducts, validation, routes, routeInstalled, nav, arrivals,
                 registeredAt, respWait>>

\* validateProductListResponse(responseData, TEST_CONFIG.MIN_PRODUCTS)
StepValidate ==
  /\ ApiAt("validateProductListResponse")
  /\ validation' = validateProductListResponse(responseData, MIN_PRODUCTS)
  /\ apiPc' = ApiEnded
  /\ UNCHANGED <<otherVars, responseData, minProducts, routes, routeInstalled, nav, arrivals,
                 registeredAt, respWait, apiResult>>

NextApi ==
  \/ ApiTestBegin
  \/ StepSetupApiInterception
  \/ StepGotoStart
  \/ StepGotoDone
  \/ ResponseArrives
  \/ StepInterceptArm
  \/ ApiWaitTimeout
  \/ StepInterceptAwait
  \/ StepValidate

SpecApi == Init /\ [][NextApi]_vars

\* The timer and the awaiting test are scheduled by the event loop.
SpecApiLive ==
  SpecApi /\ WF_vars(ApiWaitTimeout) /\ WF_vars(StepInterceptAwait)

(***************************************************************************)
(* One call of an action wrapper on one target, with time passing in steps *)
(* of SHORT.  Time does not pass the moment the primitive settles.         *)
(***************************************************************************)
elseVars ==
  <<sessionVars, hookVars, dialogVars, validateVars, apiVars, configVars, scenarioVars>>

\* A step calls a wrapper; the wrapper calls its first primitive.
WrapperCall ==
  /\ actPhase = "idle"
  /\ \E op \in ActionWrappers, described \in BOOLEAN, timeout \in {SHORT, MEDIUM},
        config \in RetryConfigs :
       \E tg \in Targets(op) :
         /\ act' = ActionCall(op, described, timeout)
         /\ target' = tg
         /\ retries' = config
         /\ invocations' = <<Primitives(op)[1]>>
  /\ clock' = 0
  /\ actPhase' = "waiting"
  /\ UNCHANGED <<elseVars, actResult, located>>

Tick ==
  /\ actPhase = "waiting"
  /\ ~Ready
  /\ clock < act.timeout
  /\ clock' = clock + SHORT
  /\ UNCHANGED <<elseVars, act, target, actPhase, invocations, actResult, retries, located>>

\* The primitive finds its condition satisfied; the wrapper's remaining
\* primitives act on the same, satisfied target and the wrapper ends.
PrimitiveSucceeds ==
  /\ actPhase = "waiting"
  /\ Ready
  /\ invocations' = invocations \o Tail(Primitives(act.op))
  /\ actResult' = Completed(act, target.text)
  /\ actPhase' = "done"
  /\ UNCHANGED <<elseVars, act, target, clock, retries, located>>

\* The primitive's timeout runs out and it throws.
PrimitiveTimesOut ==
  /\ actPhase = "waiting"
  /\ clock = act.timeout
  /\ IF AfterFailure(Len(invocations), retries) = "retry"
     THEN /\ invocations' = Append(invocations, Primitives(act.op)[1])
          /\ clock' = 0
          /\ UNCHANGED <<actPhase, actResult>>
     ELSE /\ actResult' = Caught(act, "TimeoutError")
          /\ actPhase' = "done"
          /\ UNCHANGED <<invocations, clock>>
  /\ UNCHANGED <<elseVars, act, target, retries, located>>

\* A step calls getCount: locator.count() answers at once with what the
\* locator matches now, or throws.
GetCountCall ==
  /\ actPhase = "idle"
  /\ \E described \in BOOLEAN, count \in 0..MaxCartRows, fails \in BOOLEAN :
       LET call == ActionCall("getCount", described, 0)
           loc == Located(IF fails THEN 0 ELSE count, fails)
       IN /\ act' = call
          /\ located' = loc
          /\ actResult' = getCount(call, loc)
  /\ target' = Target(TRUE, 0, <<>>)
  /\ invocations' = Primitives("getCount")
  /\ actPhase' = "done"
  /\ UNCHANGED <<elseVars, clock, retries>>

NextAction ==
  WrapperCall \/ Tick \/ PrimitiveSucceeds \/ PrimitiveTimesOut \/ GetCountCall

SpecAction == Init /\ [][NextAction]_vars

\* Time passes and the engine settles what it can settle.
SpecActionLive ==
  SpecAction /\ WF_vars(Tick) /\ WF_vars(PrimitiveSucceeds) /\ WF_vars(PrimitiveTimesOut)

(***************************************************************************)
(* Properties of the session chain.                                        *)
(***************************************************************************)

\* C1: in every state reached by initializeBrowser and cleanupBrowser calls,
\* failing ones included, a present context handle implies a present browser
\* handle and a present page handle implies a present context handle.
NestingInv ==
  /\ context # Null => browser # Null
  /\ page # Null => context # Null

\* A cleanup whose context.close threw: the chain is left partial.
NestingWitness ==
  /\ last.op = "cleanupBrowser"
  /\ last.pre.page # Null
  /\ page = Null
  /\ context # Null
  /\ browser # Null

\* C2: of two consecutive successful initializeBrowser calls with no
\* cleanupBrowser between them, the second returns the page the first returned
\* and performs no launch, no newContext and no newPage.
IdempotentAcquire ==
  (/\ last.op = "initializeBrowser" /\ last.outcome = "returned"
   /\ prev.op = "initializeBrowser" /\ prev.outcome = "returned")
  => (last.ret = prev.ret /\ last.ops = <<>>)

IdempotentAcquireWitness ==
  /\ last.op = "initializeBrowser" /\ last.outcome = "returned"
  /\ prev.op = "initializeBrowser" /\ prev.outcome = "returned"
  /\ prev.ops = <<"launch", "newContext", "newPage">>
  /\ last.ret # Null

\* C3: cleanupBrowser attempts the close of every handle that is present when
\* it is called, also when an earlier close of the same call failed.
CleanupAttemptsEveryClose ==
  last.op = "cleanupBrowser" =>
    /\ last.pre.page # Null => \E i \in DOMAIN last.ops : last.ops[i] = "page.close"
    /\ last.pre.context # Null => \E i \in DOMAIN last.ops : last.ops[i] = "context.close"
    /\ last.pre.browser # Null => \E i \in DOMAIN last.ops : last.ops[i] = "browser.close"

\* C4: cleanupBrowser returns normally whichever close fails, and the result
\* reported after the After hook is the scenario's own result.
CleanupNeverThrows ==
  /\ last.op = "cleanupBrowser" => last.outcome = "returned"
  /\ (runPhase = "idle" /\ reported # "none") => reported = scenarioResult

\* An After hook whose page.close failed, after a scenario that passed.
CleanupNeverThrowsWitness ==
  /\ runPhase = "idle"
  /\ last.op = "cleanupBrowser"
  /\ last.pre.page # Null
  /\ last.ops = <<"page.close">>
  /\ page # Null
  /\ reported = "passed"

\* C5: a cleanupBrowser call that finds all three handles absent attempts no
\* close and changes neither the handles nor the engine's resources.
CleanupOnClosedIsNoOp ==
  [][(Current = NoSession /\ last'.op = "cleanupBrowser")
       => (/\ last'.ops = <<>>
           /\ last'.outcome = "returned"
           /\ UNCHANGED <<browser, context, page, nextId, closeAttempted>>)]_vars

\* A second cleanupBrowser directly after a fully successful one.
CleanupOnClosedWitness ==
  /\ last.op = "cleanupBrowser"
  /\ last.pre = NoSession
  /\ prev.op = "cleanupBrowser"
  /\ prev.ops = <<"page.close", "context.close", "browser.close">>
  /\ Current = NoSession

CreatedBy(pre) ==
  (IF pre.browser = Null THEN <<"launch">> ELSE <<>>)
  \o (IF pre.context = Null THEN <<"newContext">> ELSE <<>>)
  \o (IF pre.page = Null THEN <<"newPage">> ELSE <<>>)

\* C6: a successful initializeBrowser call creates exactly the handles that
\* were absent, leaves every handle that was present unchanged, and ends with
\* all three present.
AcquireAdvancesMissingLinks ==
  (last.op = "initializeBrowser" /\ last.outcome = "returned") =>
    /\ browser # Null /\ context # Null /\ page # Null
    /\ last.ret = page
    /\ last.pre.browser # Null => browser = last.pre.browser
    /\ last.pre.context # Null => context = last.pre.context
    /\ last.pre.page # Null => page = last.pre.page
    /\ last.ops = CreatedBy(last.pre)
    /\ Cardinality({browser, context, page}) = 3

\* A successful call that found only the browser (an earlier newContext threw).
AcquireFromPartialWitness ==
  /\ last.op = "initializeBrowser" /\ last.outcome = "returned"
  /\ last.pre.browser # Null
  /\ last.pre.context = Null
  /\ last.ops = <<"newContext", "newPage">>
  /\ prev.op = "initializeBrowser" /\ prev.outcome = "threw"

\* C7: when the After hook's cleanupBrowser has returned all three handles
\* are absent, and the page, context and browser a Before hook hands to the
\* steps were never held by an earlier run.
TornDownBetweenRuns ==
  /\ (runPhase = "idle" /\ last.op = "cleanupBrowser") => Current = NoSession
  /\ runPhase = "steps" =>
       /\ stepPage \notin usedByEarlierRuns
       /\ Handles(Current) \cap usedByEarlierRuns = {}

\* C37: an initializeBrowser call never returns a page, and never calls
\* newPage on a context or newContext on a browser, whose close an earlier
\* cleanupBrowser had attempted.
StaleHandleNeverReused ==
  last.op = "initializeBrowser"
  => /\ last.outcome = "returned" => last.ret \notin closeAttempted
     /\ (\E i \in DOMAIN last.ops : last.ops[i] = "newPage")
        => last.pre.context \notin closeAttempted
     /\ (\E i \in DOMAIN last.ops : last.ops[i] = "newContext")
        => last.pre.browser \notin closeAttempted

(***************************************************************************)
(* Properties of the engine selection.                                     *)
(***************************************************************************)
\* C29: getBrowserLauncher is total and deterministic in the configured
\* channel: 'firefox' selects firefox, 'webkit' selects webkit and every
\* other value selects chromium; no channel makes the selection fail.
LauncherTotal ==
  engine # "none"
  => LET channel == getTestConfigChannel(BROWSER)
     IN /\ engine \in {"chromium", "firefox", "webkit"}
        /\ channel = "firefox" <=> engine = "firefox"
        /\ channel = "webkit" <=> engine = "webkit"
        /\ channel \notin {"firefox", "webkit"} <=> engine = "chromium"

\* msedge is configured and the launch went to chromium.
LauncherFallbackWitness ==
  /\ BROWSER = EnvValue(TRUE, "msedge")
  /\ last.op = "initializeBrowser"
  /\ engine = "chromium"

(***************************************************************************)
(* Properties of the action wrappers.                                      *)
(***************************************************************************)
\* C23: a wrapper called on a target that never satisfies its condition
\* ends no later than its timeout with a failure carrying the operation
\* description and the underlying cause; it never succeeds on such a target
\* and never waits indefinitely.
ActionFailsByTimeout ==
  /\ []((actPhase # "idle" /\ ~target.ever)
        => (/\ clock <= act.timeout
            /\ actResult.outcome # "returned"
            /\ actPhase = "done"
               => (/\ actResult.outcome = "threw"
                   /\ actResult.error.phrase # ""
                   /\ actResult.error.subject # ""
                   /\ act.described => actResult.error.subject = "described"
                   /\ actResult.error.cause = "TimeoutError")))
  /\ ((actPhase = "waiting" /\ ~target.ever) ~> (actPhase = "done"))

\* verifyHidden with no description on an element that stays visible has
\* failed at its timeout.
ActionTimeoutWitness ==
  /\ actPhase = "done"
  /\ ~target.ever
  /\ act = ActionCall("verifyHidden", FALSE, MEDIUM)
  /\ clock = MEDIUM
  /\ actResult.outcome = "threw"
  /\ actResult.error.subject = "Element"

\* C25: for every element text (absent, empty, whitespace only, non-blank)
\* getText either fails or returns a non-empty string, never an empty one.
GetTextNeverEmpty ==
  (act.op = "getText" /\ actPhase = "done")
  => \/ actResult.outcome = "threw"
     \/ actResult.outcome = "returned" /\ actResult.ret # <<>>

\* C26: no wrapper invokes a primitive more than once: after a failure the
\* primitive is not invoked again, whatever maxRetries and retryDelay are.
NoRetryInWrapper ==
  actPhase # "idle"
  => /\ Len(invocations) <= Len(Primitives(act.op))
     /\ invocations = SubSeq(Primitives(act.op), 1, Len(invocations))
     /\ (actPhase = "done" /\ actResult.error.cause = "TimeoutError")
        => Len(invocations) = 1

\* A click failed with two retries and a delay configured, after one
\* invocation.
NoRetryWitness ==
  /\ actPhase = "done"
  /\ act.op = "clickElement"
  /\ actResult.outcome = "threw"
  /\ retries = RetryConfig(2, 1000)
  /\ invocations = <<"click">>

\* C32: getCount on a locator that matches no element returns 0 and does
\* not fail; it returns whatever number the locator matches.
GetCountReturnsZero ==
  (actPhase = "done" /\ act.op = "getCount" /\ ~located.fails)
  => /\ actResult.outcome = "returned"
     /\ actResult.ret = located.count
     /\ actResult.error = NoActionError
     /\ located.count = 0 => actResult.ret = 0

\* getCount has returned 0 for a locator that matches nothing.
GetCountZeroWitness ==
  /\ actPhase = "done"
  /\ act.op = "getCount"
  /\ ~located.fails
  /\ located.count = 0
  /\ actResult = ActionResult("returned", 0, NoActionError)

(***************************************************************************)
(* Properties of the dialog waits.                                         *)
(***************************************************************************)
Precedes(events, a, b) ==
  \E i, j \in DOMAIN events : i < j /\ events[i] = a /\ events[j] = b

\* The dialog fired while the armed wait was pending.
FiredWhilePending ==
  \E j \in DOMAIN trace :
    /\ trace[j] = "dialog"
    /\ \E i \in 1..(j - 1) : trace[i] = "arm"
    /\ \A k \in 1..(j - 1) : trace[k] # "timeout"

\* C8: in login and in addProductToCart the wait is armed before the click is
\* issued, and a dialog that fires while the wait is pending, also before the
\* caller awaits the wait, is kept by the wait and is what the await yields.
ArmedBeforeTrigger ==
  /\ \A i \in DOMAIN trace :
       trace[i] = "click" => \E j \in 1..(i - 1) : trace[j] = "arm"
  /\ (FiredWhilePending /\ Running) => wait = Wait("dialog", dlg.msg)
  /\ (FiredWhilePending /\ result.awaited) => result.got = dlg.msg

\* login received a dialog that fired while its click was still in progress.
ArmedBeforeTriggerWitness ==
  /\ result.op = "login"
  /\ result.awaited
  /\ result.got = dlg.msg
  /\ Precedes(trace, "click", "dialog")
  /\ Precedes(trace, "dialog", "clicked")

SameLetter(a, b) == ToLowerChar(a) = ToLowerChar(b)

\* s contains sub when letter case is ignored.
ContainsIgnoringCase(s, sub) ==
  \E k \in 0..(Len(s) - Len(sub)) :
    \A i \in 1..Len(sub) : SameLetter(s[k + i], sub[i])

UnexpectedAfterAccept ==
  /\ result.outcome = "threw"
  /\ Len(result.error) = 2
  /\ result.error[2] = "Unexpected dialog message"
  /\ Precedes(trace, "accept", "throw")
  /\ dlg.state = "accepted"

\* C10: handleDialog with an expected substring, and verifyAddToCartSuccess
\* with its expectation 'added', fail with an unexpected-message error when
\* the dialog message does not contain the substring in any letter case, the
\* dialog being accepted before the failure is raised, and succeed when it
\* contains it in any letter case.
UnexpectedMessageFailsAfterAccept ==
  /\ (result.op = "handleDialog" /\ result.got # NullValue /\ expected.supplied)
     => IF ContainsIgnoringCase(result.got, expected.text)
        THEN result.outcome = "returned" /\ result.ret = result.got
        ELSE UnexpectedAfterAccept
  /\ result.op = "verifyAddToCartSuccess"
     => IF ContainsIgnoringCase(result.got, Added)
        THEN result.outcome = "returned"
        ELSE UnexpectedAfterAccept

\* handleDialog received a dialog whose message lacks the expected substring.
UnexpectedMessageWitness ==
  /\ result.op = "handleDialog"
  /\ expected.supplied
  /\ result.got # NullValue
  /\ ~ContainsIgnoringCase(result.got, expected.text)
  /\ result.outcome = "threw"
  /\ dlg.state = "accepted"

\* C11: login succeeds when its armed wait expires without a dialog: the
\* timeout is a normal outcome and is not reported as a login failure.
LoginSucceedsWithoutDialog ==
  (result.op = "login" /\ result.awaited /\ wait.state = "timeout")
  => (result.outcome = "returned" /\ result.error = <<>> /\ flow = "idle")

\* login ended after its wait timed out with no dialog raised.
LoginWithoutDialogWitness ==
  /\ result.op = "login"
  /\ result.awaited
  /\ wait.state = "timeout"
  /\ dlg.state = "none"
  /\ result.outcome = "returned"

\* C12: when the wait armed by addProductToCart expires without a dialog the
\* add-to-cart flow fails, and the success-message step passes, letting the
\* cart verification run, only after a dialog was received, checked to say
\* 'added' and accepted.
AddToCartRequiresDialog ==
  /\ (result.op = "addProductToCart" /\ result.awaited /\ wait.state = "timeout")
     => (result.outcome = "threw" /\ flow = "halted")
  /\ flow = "added" => (wait.state = "dialog" /\ held = wait.msg)
  /\ (result.op = "verifyAddToCartSuccess" /\ result.outcome = "returned")
     => (/\ FiredWhilePending
         /\ result.got = dlg.msg
         /\ ContainsIgnoringCase(dlg.msg, Added)
         /\ dlg.state = "accepted")

\* The add-to-cart step failed because no dialog fired before the timeout.
AddToCartNoDialogWitness ==
  /\ result.op = "addProductToCart"
  /\ result.awaited
  /\ wait.state = "timeout"
  /\ dlg.state = "none"
  /\ flow = "halted"

\* C13: every wait armed by login or addProductToCart is awaited exactly once
\* by the time the operation has ended, also when the click failed after the
\* wait was armed.
WaitConsumedExactlyOnce ==
  (/\ result.op \in {"login", "addProductToCart"}
   /\ flow \in {"idle", "halted", "added"}
   /\ Count(trace, "arm") = 1)
  => Count(trace, "await") = 1

\* C14: handleDialog returns null, without failing, when its wait expires, and
\* returns the dialog's message when a dialog fires and passes the optional
\* expectation.
HandleDialogNullable ==
  result.op = "handleDialog" =>
    /\ wait.state = "timeout"
       => (result.outcome = "returned" /\ result.ret = NullValue)
    /\ (/\ wait.state = "dialog"
        /\ (expected.supplied => ContainsIgnoringCase(wait.msg, expected.text)))
       => (result.outcome = "returned" /\ result.ret = wait.msg)

\* handleDialog returned null after its wait expired.
HandleDialogNullWitness ==
  /\ result.op = "handleDialog"
  /\ wait.state = "timeout"
  /\ result.outcome = "returned"
  /\ result.ret = NullValue

\* The dialog login received says, in any letter case, that the password is
\* wrong or that the user does not exist.
RejectsLogin(message) ==
  \/ ContainsIgnoringCase(message, WrongPassword)
  \/ ContainsIgnoringCase(message, UserDoesNotExist)

\* C35: a login that reached its await fails with 'Login failed' exactly when
\* a dialog fired while its wait was pending and the message contains, in any
\* letter case, 'wrong password' or 'user does not exist'; a dialog with any
\* other message is accepted once and login succeeds.
LoginFailsOnRejectingDialog ==
  (result.op = "login" /\ result.awaited)
  => /\ (result.outcome = "threw")
        <=> (wait.state = "dialog" /\ FiredWhilePending /\ RejectsLogin(wait.msg))
     /\ result.outcome = "threw"
        => (/\ result.error = <<Wrapper("login"), "Login failed">>
            /\ dlg.state = "accepted")
     /\ (wait.state = "dialog" /\ ~RejectsLogin(wait.msg))
        => (/\ result.outcome = "returned"
            /\ dlg.state = "accepted"
            /\ dlg.accepts = 1)

\* login failed on a rejecting dialog written in capitals.
LoginRejectedWitness ==
  /\ result.op = "login"
  /\ result.awaited
  /\ result.outcome = "threw"
  /\ wait.msg = <<"W", "R", "O", "N", "G", " ", "P", "A", "S", "S", "W", "O", "R", "D">>
  /\ dlg.state = "accepted"

\* C33: the add-to-cart step ends once the click has completed and leaves
\* the wait for the dialog to the next step: a wait that runs out with no
\* dialog fails the success-message step, never the add-to-cart step.
AddToCartLeavesWaitToNextStep ==
  (\E i \in DOMAIN result.error : result.error[i] = "TimeoutError")
  => result.op = "verifyAddToCartSuccess"

(***************************************************************************)
(* Properties of the scenario.                                             *)
(***************************************************************************)
IsPrefix(s, whole) == Len(s) <= Len(whole) /\ s = SubSeq(whole, 1, Len(s))

\* Step k was executed and did not fail.
StepPassed(k) == scPc >= k /\ (failedAt = 0 \/ failedAt > k)

\* C21: the steps run in one fixed order (home page, login, authentication
\* check, product selection, product-details check, add to cart, dialog
\* check, cart check, checkout form, submit, confirmation checks) and the
\* scenario state only moves forward along Start, Authenticated,
\* ProductSelected, InCart, CheckoutFormFilled, OrderSubmitted, Confirmed,
\* entering no state twice.
StepsInFixedOrder ==
  /\ IsPrefix(executed,
              <<"navigateToBaseUrl", "login", "verifyLoggedIn", "selectProduct",
                "verifyProductDetails", "addProductToCart", "verifyAddToCartSuccess",
                "verifyCartItems", "fillCheckoutForm", "submitOrder",
                "verifyOrderConfirmation", "verifyOrderModalMessage">>)
  /\ IsPrefix(visited,
              <<"Start", "Authenticated", "ProductSelected", "InCart",
                "CheckoutFormFilled", "OrderSubmitted", "Confirmed">>)

\* A run went through all twelve steps and all seven states.
ConfirmedWitness ==
  /\ Len(executed) = 12
  /\ Len(visited) = 7
  /\ visited[7] = "Confirmed"
  /\ scenarioResult = "passed"

RECURSIVE VisitedBy(_)
\* The states the first n steps establish.
VisitedBy(n) ==
  IF n = 0 THEN <<"Start">>
  ELSE IF Reaches(scenarioSteps[n]) = "" THEN VisitedBy(n - 1)
  ELSE Append(VisitedBy(n - 1), Reaches(scenarioSteps[n]))

\* C22: when a step fails no later step of the scenario executes, the
\* scenario stays at the state reached before the failing step, and only the
\* After hook's cleanup still runs; a failed Before hook leaves every step
\* unexecuted.
FailureHaltsScenario ==
  /\ failedAt # 0
     => (/\ Len(executed) = failedAt
         /\ visited = VisitedBy(failedAt - 1)
         /\ runPhase \in {"after", "idle"}
         /\ scenarioResult = "failed"
         /\ runPhase = "idle" => last.op = "cleanupBrowser")
  /\ runPhase = "skipped" => executed = <<>>

\* The cart check failed, the four steps after it did not run and the
\* cleanup ran.
HaltedAtCartCheckWitness ==
  /\ failedAt = 8
  /\ executed[8] = "verifyCartItems"
  /\ Len(executed) = 8
  /\ visited[Len(visited)] = "ProductSelected"
  /\ runPhase = "idle"
  /\ last.op = "cleanupBrowser"

\* C24: every failure raised inside a helper operation reaches the step
\* layer behind a message describing the operation; no underlying error
\* surfaces bare.
EveryFailureWrapped ==
  surfaced.cause # "" => surfaced.description # ""

VerifyCartItemsIsMinimum ==
  (/\ failedAt = 8
   /\ surfaced.description = "Cart verification failed"
   /\ surfaced.cause # "navigateToCart")
  => Len(cart) < 1

\* C36: no step's waits, performed one after another, add up to more than
\* the step's timeout: a step whose waits all succeed, however late, is not
\* ended by the runner's own timeout.
StepWaitsFitBudget ==
  /\ scPc > 0 => elapsed <= StepBudget(scenarioSteps[scPc])
  /\ surfaced.cause # "function timed out"

\* C38: whatever its parameterised phrases carry, the scenario checks those
\* values: the product-details step verifies the name handed to the
\* selection step and the modal step verifies its phrase's message.
PhraseValueIsChecked ==
  /\ scPc >= 5 => (handed[5] = handed[4] /\ handed[5] = feature.productName)
  /\ scPc >= 12 => handed[12] = feature.expectedMessage

\* C28: the final confirmation step passes only when the confirmation title
\* equals exactly "Thank you for your purchase!" (white space around and
\* inside the title normalised, as the engine's text matchers do).
ModalTitleEqualsExactly ==
  StepPassed(12) => NormalizeWhiteSpace(title) = ORDER_SUCCESS

(***************************************************************************)
(* Properties of the API test.                                             *)
(***************************************************************************)
\* The arrivals the wait could see: those after its registration.
SeenMatches ==
  {i \in DOMAIN arrivals :
     i > registeredAt /\ Matches(arrivals[i], ENTRIES, ExpectedStatus)}

\* The arrivals since the navigation started that satisfy the predicate.
ArrivedMatches ==
  {i \in DOMAIN arrivals : Matches(arrivals[i], ENTRIES, ExpectedStatus)}

\* C15: in the API test the response wait is registered before the
\* navigation that triggers the request, so a matching response arriving at
\* any time after the navigation starts resolves the wait.
WaitRegisteredBeforeNavigation ==
  /\ nav # "none" => respWait.state # "none"
  /\ (ArrivedMatches # {} /\ apiPc = ApiEnded /\ nav = "loaded")
     => respWait.state = "resolved"

\* C16: the wait of interceptApiRequest resolves only with a response whose
\* URL contains the endpoint and whose status is the expected one; a response
\* with the URL and another status, or the status and another URL, never
\* resolves it.
ResolvesOnlyOnUrlAndStatus ==
  /\ respWait.state = "resolved"
     => (/\ Includes(respWait.response.url, ENTRIES)
         /\ respWait.response.status = ExpectedStatus)
  /\ respWait.state = "pending"
     => \A i \in DOMAIN arrivals :
          i > registeredAt
          => ~(/\ Includes(arrivals[i].url, ENTRIES)
               /\ arrivals[i].status = ExpectedStatus)

\* A 404 from the endpoint and a 200 from another URL arrived after the
\* registration and the wait is unresolved.
NearMissesWitness ==
  /\ respWait.state \in {"pending", "timeout"}
  /\ \E i, j \in DOMAIN arrivals :
       /\ i > registeredAt /\ j > registeredAt
       /\ Includes(arrivals[i].url, ENTRIES) /\ arrivals[i].status = 404
       /\ ~Includes(arrivals[j].url, ENTRIES) /\ arrivals[j].status = ExpectedStatus

\* C17: the first response after the registration that satisfies the
\* predicate is the one the wait resolves with and the one whose body the
\* call returns; once resolved the wait does not change.
FirstMatchWins ==
  /\ [](/\ respWait.state = "resolved"
           => (SeenMatches # {} /\ respWait.response = arrivals[Least(SeenMatches)])
        /\ (apiResult.outcome = "returned")
           => (SeenMatches # {} /\ apiResult.body = arrivals[Least(SeenMatches)].body))
  /\ [][respWait.state = "resolved" => respWait' = respWait]_vars

\* Two matching responses with different bodies arrived after the
\* registration and the call returned the first one's body.
LaterMatchIgnoredWitness ==
  /\ apiResult.outcome = "returned"
  /\ \E i, j \in SeenMatches :
       /\ i < j
       /\ arrivals[i].json /\ arrivals[j].json
       /\ arrivals[i].body # arrivals[j].body
       /\ apiResult.body = arrivals[i].body

\* C18: when no matching response arrives within the LONG timeout after the
\* registration, interceptApiRequest throws an error naming the endpoint and
\* returns no body; a registered wait always ends.
TimeoutFailsNamingEndpoint ==
  /\ []((apiResult.done /\ respWait.state = "timeout")
        => (/\ apiResult.outcome = "threw"
            /\ apiResult.error.endpoint = ENTRIES
            /\ apiResult.body = Undefined
            /\ responseData = JsonScalar("null")
            /\ ~validation.done))
  /\ [](respWait.state = "pending" => respWait.timeout = LONG)
  /\ (respWait.state = "pending" ~> apiResult.done)

\* The wait timed out with responses around and the call threw.
TimeoutWitness ==
  /\ respWait.state = "timeout"
  /\ arrivals # <<>>
  /\ apiResult.outcome = "threw"
  /\ apiResult.error.endpoint = ENTRIES

\* C31: the route handler installed by setupApiInterception continues every
\* request it sees exactly once and as issued, never aborting or fulfilling
\* it, and the page receives the response to every request it issues, in
\* order, whether the handler saw the request or not.
RouteHandlerPassesThrough ==
  /\ \A i \in DOMAIN routes :
       LET r == routes[i]
       IN /\ r.seen = GlobMatches(RouteGlob(ENTRIES), r.request.url)
          /\ r.seen =>
               /\ r.handled.continues = 1
               /\ r.handled.aborts = 0
               /\ r.handled.fulfils = 0
               /\ r.handled.sent = r.request
  /\ arrivals = [i \in DOMAIN routes |-> routes[i].response]

\* The handler saw one request and not another, and the awaited response
\* is the one to the request it saw.
RoutePassedThroughWitness ==
  /\ \E i, j \in DOMAIN routes : routes[i].seen /\ ~routes[j].seen
  /\ \E i \in DOMAIN routes :
       /\ routes[i].seen
       /\ respWait.state = "resolved"
       /\ respWait.response = routes[i].response
  /\ apiResult.outcome = "returned"

\* C30: a matching response whose declared content type is not
\* application/json but whose body parses as JSON is returned as decoded
\* data; the content-type mismatch alone never makes the call fail.
MislabeledJsonIsReturned ==
  (/\ apiResult.done
   /\ respWait.state = "resolved"
   /\ ~Includes(respWait.response.contentType, ApplicationJson))
  => (/\ apiResult.warned
      /\ respWait.response.json
         => (/\ apiResult.outcome = "returned"
             /\ apiResult.body = respWait.response.body
             /\ responseData = respWait.response.body)
      /\ apiResult.outcome = "threw"
         => (~respWait.response.json /\ apiResult.error.cause = "response.json"))

\* A text/html response carrying the product list was returned, with the
\* warning.
MislabeledJsonWitness ==
  /\ apiResult.outcome = "returned"
  /\ respWait.response.contentType = TextHtml
  /\ apiResult.warned
  /\ apiResult.body = ListBody

(***************************************************************************)
(* Properties of the response validation.                                  *)
(***************************************************************************)
OnlyObjectRecords(items) == \A i \in DOMAIN items : items[i] = "object"

\* C19: for a bare sequence of n object records and a minimum m the
\* validation succeeds exactly when n >= m, and its failure names the found
\* count n and the required count m.
CountDecidesBareSequence ==
  (/\ validation.done
   /\ responseData.type = "array"
   /\ OnlyObjectRecords(responseData.items))
  => LET n == Len(responseData.items)
     IN /\ validation.outcome = "returned" <=> n >= minProducts
        /\ n < minProducts
           => (/\ validation.outcome = "threw"
               /\ validation.error.found = n
               /\ validation.error.required = minProducts)

\* Four records against a minimum of five.
CountMismatchWitness ==
  /\ validation.done
  /\ responseData = JsonArray(ObjectRecords(4))
  /\ minProducts = 5
  /\ validation.outcome = "threw"
  /\ validation.error.found = 4
  /\ validation.error.required = 5

IsFirstArrayField(data, i) ==
  /\ i \in DOMAIN data.fields
  /\ data.fields[i].type = "array"
  /\ \A j \in 1..(i - 1) : data.fields[j].type # "array"

\* C20: the validation evaluates the body itself when the body is a
\* sequence; otherwise, for an object, the first top-level field in field
\* order whose value is a sequence; and it fails with a validation error when
\* the body is neither a sequence nor an object with a sequence-valued field.
ExtractionPolicy ==
  validation.done =>
    IF responseData.type = "array"
    THEN validation.extracted /\ validation.products = responseData.items
    ELSE IF responseData.type = "object"
            /\ \E i \in DOMAIN responseData.fields : responseData.fields[i].type = "array"
    THEN /\ validation.extracted
         /\ \E i \in DOMAIN responseData.fields :
              /\ IsFirstArrayField(responseData, i)
              /\ validation.products = responseData.fields[i].items
    ELSE /\ ~validation.extracted
         /\ validation.outcome = "threw"
         /\ validation.error.wrapper = "Product list validation failed"
         /\ validation.error.cause \in
              {"Response is not an array or object",
               "Response is not an array and no array property found"}

\* {status, items: [{}, {}]}: the second field is the sequence evaluated.
ObjectWrappedWitness ==
  /\ validation.done
  /\ responseData =
       JsonObject(<<JsonScalar("string"), JsonArray(ObjectRecords(2))>>)
  /\ validation.extracted
  /\ validation.products = ObjectRecords(2)

\* `typeof x === 'object' && x !== null`: records and arrays.
IsNonNullObject(kind) == kind = "object" \/ kind = "array"

\* C39: a validation that extracted a sequence of length n accepts it for a
\* minimum m exactly when n >= m and, if n > 0, the first element is a
\* non-null object; what follows the first element does not matter, and the
\* empty sequence is accepted when m = 0.
FirstElementDecides ==
  (validation.done /\ validation.extracted)
  => LET items == validation.products
         n == Len(items)
     IN /\ validation.outcome = "returned"
           <=> (n >= minProducts /\ (n > 0 => IsNonNullObject(items[1])))
        /\ (n = 0 /\ minProducts = 0) => validation.outcome = "returned"
        /\ responseData.type = "array" => items = responseData.items

\* A record followed by null was accepted for a minimum of two.
LaterElementIgnoredWitness ==
  /\ validation.done
  /\ responseData = JsonArray(<<"object", "null">>)
  /\ minProducts = 2
  /\ validation.outcome = "returned"

====
